---------------------------- MODULE Spec2Model ----------------------------
(***************************************************************************)
(* Model of graceful's serializer: field declarations, the field type      *)
(* hierarchy (RawField, StringField, IntField), the validators, and the    *)
(* representation <-> internal object conversion of BaseSerializer as it   *)
(* is driven by BaseResource.require_validated.                            *)
(***************************************************************************)
EXTENDS Integers, Sequences, FiniteSets, TLC

VARIABLES
    pc,             \* position: "define", "ready", "coerce", "returned", "done"
    call,           \* the operation in progress or ended: "none",
                    \* "require_validated" or "to_representation"
    body,           \* the class body (sequence of declarations) being defined
    fields,         \* serializer.fields: the registry, a sequence of field objects
    representation, \* the decoded request payload (key -> raw value)
    partial,        \* require_validated's partial argument
    idx,            \* position of from_representation's loop over fields.items()
    object_dict,    \* from_representation's object_dict (source -> value)
    failed,         \* from_representation's failed (name -> message)
    outcome,        \* how the call ended: "none", "returned" or an exception type
    err,            \* the DeserializationError raised, when outcome says so
    validate_calls, \* every invocation of serializer.validate, in order
    instance,       \* the internal object handed to to_representation
    output,         \* what to_representation returned
    \* a single field object and the calls made on it
    field_obj,      \* the field object constructed, NoField before
    field_call,     \* the last call on the field: "none", "__init__",
                    \* "from_representation", "to_representation", "validate",
                    \* "serializer.validate", or a second conversion applied
                    \* to the result of the first: "from(to)", "to(from)"
    field_arg,      \* the argument of the (first) call
    field_mid,      \* the result of the first conversion of a pair
    field_result,   \* the result of the last call: Ok(value) or Raise(...)
    field_err,      \* the DeserializationError serializer.validate raised
    \* the classes created by a metaclass
    metaclass,      \* "none", then "MetaSerializer" or "MetaResource"
    classes,        \* the classes created so far, the base class first: each
                    \* with its bases, its body as written, the namespace
                    \* the class was created with and its registry
    class_error,    \* the exception of the last class statement, or "none"
    \* a resource and a call of require_params
    params,         \* resource.params: the registry, a sequence of parameter
                    \* objects
    req_params,     \* req.params: name -> the values given in the query string
    param_pc,       \* "define", "ready", "decode" or "done"
    param_idx,      \* position of require_params's loop over self.params.items()
    decoded,        \* require_params's local `params` (name -> value)
    param_outcome,  \* how the call ended: "none", "returned" or an exception
    param_error,    \* the names of HTTPMissingParam, in the order they were
                    \* joined, or the name and message of HTTPInvalidParam
    param_decl,     \* the declaration of a parameter constructed on its own
    \* calls in progress on one serializer and one resource
    shared_pc,      \* "define" or "serving"
    shared_fields,  \* serializer.fields of the shared serializer
    shared_params,  \* resource.params of the shared resource
    frames,         \* call -> the local variables of the call
    \* self-description
    doc_pc,         \* "define", "ready" or "done"
    doc_fields,     \* the registry of the serializer, label and details kept
    doc_call,       \* the describe call made: method, field position, kwargs
    doc_output,     \* what the call returned
    \* one request to a serializer-backed resource
    http_pc,        \* "ready", "validate" or "done"
    http_request,   \* the method and the decoded body
    http_pos,       \* position of require_validated's loop
    object_dicts,   \* require_validated's list of validated objects
    handler_calls,  \* the calls of the user's handlers, in order
    storage,        \* what the handlers stored
    http_status,    \* the status of the response, or the exception
    \* one request passing the authentication middlewares of an API
    auth_pc,        \* "configure", "ready", "process", "hook" or "done"
    middleware,     \* the middleware objects of the API, in order
    FALCON_VERSION, \* the version of the installed falcon, a tuple
    headers,        \* the headers of the request
    context,        \* req.context, a dict
    auth_pos,       \* the middleware whose process_resource runs next
    auth_result,    \* how the request ended
    \* one KeyValueUserStorage
    kv_store,       \* the key-value store behind it, a dict of key and bytes
    registered,     \* the register calls that returned, in order
    kv_call,        \* the last call: method, middleware name, identifier
    kv_result,      \* what the last call returned or raised
    \* one call of serializer.validate by the user's code
    direct_pc,      \* "define", "ready" or "done"
    direct_fields,  \* the registry of the serializer
    direct_call,    \* the arguments: object_dict and partial
    direct_result,  \* what the call raised, with the error's collections
    \* fields built by one caller from one validators list
    heap,           \* the list objects: a list is known by its position
    caller_list,    \* the caller's list L: its position in heap, 0 before
    original,       \* the items of L when the caller made it
    built_fields,   \* the fields built, self.validators a position in heap
    validated_with  \* the last field.validate call: field, value, result

serializerVars ==
    <<pc, call, body, fields, representation, partial, idx, object_dict,
      failed, outcome, err, validate_calls, instance, output>>

fieldVars ==
    <<field_obj, field_call, field_arg, field_mid, field_result, field_err>>

registryVars == <<metaclass, classes, class_error>>

paramVars ==
    <<params, req_params, param_pc, param_idx, decoded, param_outcome,
      param_error, param_decl>>

sharedVars == <<shared_pc, shared_fields, shared_params, frames>>

docVars == <<doc_pc, doc_fields, doc_call, doc_output>>

requestVars ==
    <<http_pc, http_request, http_pos, object_dicts, handler_calls, storage,
      http_status>>

authVars ==
    <<auth_pc, middleware, FALCON_VERSION, headers, context, auth_pos,
      auth_result>>

kvVars == <<kv_store, registered, kv_call, kv_result>>

directVars == <<direct_pc, direct_fields, direct_call, direct_result>>

listVars == <<heap, caller_list, original, built_fields, validated_with>>

\* the variables of the specifications further down
laterVars ==
    <<docVars, requestVars, authVars, kvVars, directVars, listVars>>

vars ==
    <<serializerVars, fieldVars, registryVars, paramVars, sharedVars, laterVars>>

\* what an action on a serializer leaves alone
outsideSerializer == <<fieldVars, registryVars, paramVars, sharedVars, laterVars>>

\* what an action on a single field leaves alone
outsideField == <<serializerVars, registryVars, paramVars, sharedVars, laterVars>>

\* what a class statement leaves alone
outsideRegistry == <<serializerVars, fieldVars, paramVars, sharedVars, laterVars>>

\* what an action on a resource's parameters leaves alone
outsideParams == <<serializerVars, fieldVars, registryVars, sharedVars, laterVars>>

\* what a call on the shared serializer and resource leaves alone
outsideShared ==
    <<serializerVars, fieldVars, registryVars, paramVars, laterVars>>

\* what a describe call leaves alone
outsideDoc ==
    <<serializerVars, fieldVars, registryVars, paramVars, sharedVars,
      requestVars, authVars, kvVars,
      directVars,
      listVars>>

\* what a request leaves alone
outsideRequest ==
    <<serializerVars, fieldVars, registryVars, paramVars, sharedVars, docVars,
      authVars, kvVars,
      directVars,
      listVars>>

\* what the authentication of a request leaves alone
outsideAuth ==
    <<serializerVars, fieldVars, registryVars, paramVars, sharedVars, docVars,
      requestVars, kvVars,
      directVars,
      listVars>>

\* what a call on the user storage leaves alone
outsideKv ==
    <<serializerVars, fieldVars, registryVars, paramVars, sharedVars, docVars,
      requestVars, authVars,
      directVars,
      listVars>>

\* what a direct call of validate leaves alone
outsideDirect ==
    <<serializerVars, fieldVars, registryVars, paramVars, sharedVars,
      docVars, requestVars, authVars, kvVars,
      listVars>>

\* what the construction of fields from one list leaves alone
outsideLists ==
    <<serializerVars, fieldVars, registryVars, paramVars, sharedVars,
      docVars, requestVars, authVars, kvVars, directVars>>

(***************************************************************************)
(* Bounds of the model.                                                    *)
(***************************************************************************)
\* integers that occur as raw or internal values are -1 .. MaxInt
MaxInt == 2
\* classes defined on top of the base class of the library
MaxClasses == 3
\* attributes written in one class body
MaxBody == 2
\* calls in progress at once on one serializer and one resource
MaxCalls == 2
\* representations in the body of a bulk request
MaxItems == 3
\* authentication middlewares of one API
MaxMiddleware == 3
\* register calls on one user storage
MaxRegister == 3
\* fields built from one validators list
MaxFields == 2

(***************************************************************************)
(* Python values.  Every value is a record of one shape so that any two    *)
(* can be compared: t is the Python type, i the number of an int, s the    *)
(* text of a str, l the items of a list, d the entries of a dict.           *)
(***************************************************************************)
NoItems == <<>>

IntV(n) == [t |-> "int", i |-> n, s |-> "", l |-> <<>>, d |-> NoItems]
StrV(x) == [t |-> "str", i |-> 0, s |-> x, l |-> <<>>, d |-> NoItems]
NoneV == [t |-> "NoneType", i |-> 0, s |-> "", l |-> <<>>, d |-> NoItems]
ListV(items) == [t |-> "list", i |-> 0, s |-> "", l |-> items, d |-> NoItems]
DictV(items) == [t |-> "dict", i |-> 0, s |-> "", l |-> <<>>, d |-> items]
\* a bool: i is 1 for True and 0 for False
BoolV(b) ==
    [t |-> "bool", i |-> IF b THEN 1 ELSE 0, s |-> "", l |-> <<>>, d |-> NoItems]
\* a float: i counts halves, so FloatV(3) is 1.5 and FloatV(2) is 1.0
FloatV(h) == [t |-> "float", i |-> h, s |-> "", l |-> <<>>, d |-> NoItems]

\* the numbers: bool is a subclass of int, and int, bool and float compare
\* by value
IsNumber(v) == v.t \in {"int", "bool", "float"}

\* the value of a number, in halves
Num(v) == IF v.t = "float" THEN v.i ELSE 2 * v.i

\* a == b
PyEq(a, b) == IF IsNumber(a) /\ IsNumber(b) THEN Num(a) = Num(b) ELSE a = b

\* value in set: hashing a list or a dict is a TypeError
PyIn(v, set) ==
    IF v.t \in {"list", "dict"}
    THEN [exc |-> "TypeError", in |-> FALSE]
    ELSE [exc |-> "none", in |-> \E x \in set : PyEq(v, x)]

Ints == -1 .. MaxInt

Range(f) == {f[x] : x \in DOMAIN f}

(***************************************************************************)
(* A dict the code builds and iterates is a sequence of entries [k, v] in  *)
(* insertion order, as a Python dict keeps them.                           *)
(***************************************************************************)
DictKeys(d) == {d[n].k : n \in DOMAIN d}

DictHas(d, k) == k \in DictKeys(d)

DictGet(d, k) == d[CHOOSE n \in DOMAIN d : d[n].k = k].v

\* d[k] = v: an existing key keeps its place
DictPut(d, k, v) ==
    IF DictHas(d, k)
    THEN [n \in DOMAIN d |-> IF d[n].k = k THEN [k |-> k, v |-> v] ELSE d[n]]
    ELSE Append(d, [k |-> k, v |-> v])

\* the mapping a dict denotes (dict equality ignores the order)
DictItems(d) == [k \in DictKeys(d) |-> DictGet(d, k)]

\* list(d): the keys in insertion order
DictKeyList(d) == [n \in DOMAIN d |-> d[n].k]

\* outcome of a Python call: the value returned, or the exception raised with
\* its message
Ok(v) == [exc |-> "none", val |-> v, msg |-> NoneV]
Raise(e, m) == [exc |-> e, val |-> NoneV, msg |-> m]

(***************************************************************************)
(* str() and int() of the values above.                                    *)
(***************************************************************************)
DigitText == <<"0", "1", "2", "3", "4", "5", "6", "7", "8", "9">>

\* str(n) of a small integer
IntText(n) == IF n < 0 THEN "-" \o DigitText[(0 - n) + 1] ELSE DigitText[n + 1]

\* str(x) of a float given in halves: "1.0", "1.5", "-0.5"
FloatText(h) ==
    LET a == IF h < 0 THEN 0 - h ELSE h
    IN  (IF h < 0 THEN "-" ELSE "") \o DigitText[(a \div 2) + 1]
            \o (IF a % 2 = 0 THEN ".0" ELSE ".5")

\* str(value): an int in decimal, a str itself, None as "None", a list or a
\* dict as its repr (kept here as the text "[...]" or "{...}" together with
\* the items rendered)
PyStr(v) ==
    CASE v.t = "int" -> StrV(IntText(v.i))
      [] v.t = "bool" -> StrV(IF v.i = 1 THEN "True" ELSE "False")
      [] v.t = "float" -> StrV(FloatText(v.i))
      [] v.t = "str" -> v
      [] v.t = "NoneType" -> StrV("None")
      [] v.t = "list" -> [StrV("[...]") EXCEPT !.l = v.l]
      [] v.t = "dict" -> [StrV("{...}") EXCEPT !.d = v.d]

\* int(value): an int itself, a str parsed as a decimal literal (ValueError
\* when it is none), TypeError for None, a list and a dict
PyInt(v) ==
    CASE v.t = "int" -> Ok(v)
      [] v.t = "bool" -> Ok(IntV(v.i))
      [] v.t = "float" ->
            Ok(IntV(IF v.i < 0 THEN 0 - ((0 - v.i) \div 2) ELSE v.i \div 2))
      [] v.t = "str" ->
            IF \E n \in -9 .. 9 : IntText(n) = v.s
            THEN Ok(IntV(CHOOSE n \in -9 .. 9 : IntText(n) = v.s))
            ELSE Raise("ValueError", StrV("invalid literal for int() with base 10: " \o v.s))
      [] OTHER -> Raise("TypeError", StrV("int() argument must be a string, a bytes-like object or a real number, not " \o v.t))

\* float(value): a number as a float, a str parsed as a decimal literal
\* (ValueError when it is none), TypeError for None, a list and a dict
PyFloat(v) ==
    CASE IsNumber(v) -> Ok(FloatV(Num(v)))
      [] v.t = "str" ->
            IF \E n \in -9 .. 9 : IntText(n) = v.s
            THEN Ok(FloatV(2 * (CHOOSE n \in -9 .. 9 : IntText(n) = v.s)))
            ELSE IF \E h \in -18 .. 18 : FloatText(h) = v.s
            THEN Ok(FloatV(CHOOSE h \in -18 .. 18 : FloatText(h) = v.s))
            ELSE Raise("ValueError", StrV("could not convert string to float: " \o v.s))
      [] OTHER -> Raise("TypeError", StrV("float() argument must be a string or a real number, not " \o v.t))

(***************************************************************************)
(* Validators (graceful.validators).  A validator is the closure returned  *)
(* by min_validator, max_validator or choices_validator: kind says which,  *)
(* arg is the bound, choices the allowed values and text their repr.       *)
(***************************************************************************)
min_validator(min_value) ==
    [kind |-> "min", arg |-> min_value, choices |-> {}, text |-> ""]

max_validator(max_value) ==
    [kind |-> "max", arg |-> max_value, choices |-> {}, text |-> ""]

choices_validator(choices, text) ==
    [kind |-> "choices", arg |-> 0, choices |-> choices, text |-> text]

\* validators whose bounds are exclusive
CallValidatorExclusive(v, value) ==
    CASE v.kind = "min" ->
            IF ~IsNumber(value)
            THEN Raise("TypeError", StrV("'<' not supported"))
            ELSE IF Num(value) <= 2 * v.arg
            THEN Raise("ValidationError",
                       StrV(PyStr(value).s \o " is not >= " \o IntText(v.arg)))
            ELSE Ok(NoneV)
      [] v.kind = "max" ->
            IF ~IsNumber(value)
            THEN Raise("TypeError", StrV("'>' not supported"))
            ELSE IF Num(value) >= 2 * v.arg
            THEN Raise("ValidationError",
                       StrV(PyStr(value).s \o " is not <= " \o IntText(v.arg)))
            ELSE Ok(NoneV)
      [] v.kind = "choices" ->
            IF ~\E c \in v.choices : PyEq(value, c)
            THEN Raise("ValidationError",
                       StrV(PyStr(value).s \o " is not in " \o v.text))
            ELSE Ok(NoneV)

\* validator(value): returns None or raises ValidationError; comparing a
\* value that is no number with the bound raises TypeError
CallValidator(v, value) ==
    CASE v.kind = "min" ->
            IF ~IsNumber(value)
            THEN Raise("TypeError", StrV("'<' not supported"))
            ELSE IF Num(value) < 2 * v.arg
            THEN Raise("ValidationError",
                       StrV(PyStr(value).s \o " is not >= " \o IntText(v.arg)))
            ELSE Ok(NoneV)
      [] v.kind = "max" ->
            IF ~IsNumber(value)
            THEN Raise("TypeError", StrV("'>' not supported"))
            ELSE IF Num(value) > 2 * v.arg
            THEN Raise("ValidationError",
                       StrV(PyStr(value).s \o " is not <= " \o IntText(v.arg)))
            ELSE Ok(NoneV)
      [] v.kind = "choices" ->
            IF ~\E c \in v.choices : PyEq(value, c)
            THEN Raise("ValidationError",
                       StrV(PyStr(value).s \o " is not in " \o v.text))
            ELSE Ok(NoneV)

(***************************************************************************)
(* Field declarations and field objects (graceful.fields).  A declaration  *)
(* is the constructor call written in a class body: cls(...) with its      *)
(* keyword arguments; source "" stands for source=None, max_value and      *)
(* min_value are <<>> for None and <<n>> for n, and kwargs holds the names *)
(* of the keywords passed besides the ones listed.                         *)
(***************************************************************************)
Decl(name, cls, source, validators, many, read_only, max_value, min_value, kwargs) ==
    [name |-> name, cls |-> cls, source |-> source, validators |-> validators,
     many |-> many, read_only |-> read_only, max_value |-> max_value,
     min_value |-> min_value, kwargs |-> kwargs]

\* the class attribute `type` of each field class
FieldType(cls) ==
    CASE cls = "RawField" -> "raw"
      [] cls = "StringField" -> "string"
      [] cls = "IntField" -> "int"
      [] cls = "BoolField" -> "bool"
      [] cls = "FloatField" -> "float"

NoField ==
    [name |-> "", type |-> "", source |-> "", validators |-> <<>>,
     many |-> FALSE, read_only |-> FALSE]

\* BaseField.__init__(details, label, source, validators, many, read_only):
\* any other keyword is a TypeError of the call
BaseFieldInit(d) ==
    IF d.kwargs # {}
    THEN [exc |-> "TypeError", field |-> NoField]
    ELSE [exc |-> "none",
          field |-> [name |-> d.name, type |-> FieldType(d.cls),
                     source |-> d.source, validators |-> d.validators,
                     many |-> d.many, read_only |-> d.read_only]]

\* IntField.__init__: BaseField.__init__, then self.max_value and
\* self.min_value are set and the max and the min validator are appended, in
\* that order, to self.validators
IntFieldInit(d) ==
    LET base == BaseFieldInit(d)
        withMax == IF d.max_value # <<>>
                   THEN Append(base.field.validators, max_validator(d.max_value[1]))
                   ELSE base.field.validators
        withMin == IF d.min_value # <<>>
                   THEN Append(withMax, min_validator(d.min_value[1]))
                   ELSE withMax
    IN  IF base.exc # "none" THEN base
        ELSE [exc |-> "none",
              field |-> [name |-> base.field.name, type |-> base.field.type,
                         source |-> base.field.source, validators |-> withMin,
                         many |-> base.field.many,
                         read_only |-> base.field.read_only,
                         max_value |-> d.max_value, min_value |-> d.min_value]]

\* FloatField.__init__: the same steps as IntField.__init__
FloatFieldInit(d) ==
    LET base == BaseFieldInit(d)
        withMax == IF d.max_value # <<>>
                   THEN Append(base.field.validators, max_validator(d.max_value[1]))
                   ELSE base.field.validators
        withMin == IF d.min_value # <<>>
                   THEN Append(withMax, min_validator(d.min_value[1]))
                   ELSE withMax
    IN  IF base.exc # "none" THEN base
        ELSE [exc |-> "none",
              field |-> [name |-> base.field.name, type |-> base.field.type,
                         source |-> base.field.source, validators |-> withMin,
                         many |-> base.field.many,
                         read_only |-> base.field.read_only,
                         max_value |-> d.max_value, min_value |-> d.min_value]]

\* the class attributes BoolField._TRUE_VALUES and BoolField._FALSE_VALUES as
\* the source text evaluates: 'f' '0' is one literal, the text 'f0'
_TRUE_VALUES ==
    {StrV("True"), StrV("true"), StrV("TRUE"), StrV("T"), StrV("t"), StrV("1"),
     IntV(1), BoolV(TRUE)}

_FALSE_VALUES ==
    {StrV("False"), StrV("false"), StrV("FALSE"), StrV("F"), StrV("f0"),
     IntV(0), FloatV(0), BoolV(FALSE)}

_DEFAULT_REPRESENTATIONS == <<BoolV(FALSE), BoolV(TRUE)>>

\* a declaration BoolField(details, representations=...): representations is
\* <<>> for None and <<f, t>> for the tuple (f, t)
BoolDecl(name, representations) ==
    [name |-> name, cls |-> "BoolField", source |-> "", validators |-> <<>>,
     many |-> FALSE, read_only |-> FALSE, max_value |-> <<>>, min_value |-> <<>>,
     kwargs |-> {}, representations |-> representations]

\* BoolField.__init__: BaseField.__init__, then a given pair replaces both
\* token sets and the output pair
BoolFieldInit(d) ==
    LET base == BaseFieldInit(d)
        given == d.representations # <<>>
    IN  IF base.exc # "none" THEN base
        ELSE [exc |-> "none",
              field |-> [name |-> base.field.name, type |-> base.field.type,
                         source |-> base.field.source,
                         validators |-> base.field.validators,
                         many |-> base.field.many,
                         read_only |-> base.field.read_only,
                         FALSE_VALUES |-> IF given THEN {d.representations[1]}
                                          ELSE _FALSE_VALUES,
                         TRUE_VALUES |-> IF given THEN {d.representations[2]}
                                         ELSE _TRUE_VALUES,
                         representations |-> IF given THEN d.representations
                                             ELSE _DEFAULT_REPRESENTATIONS]]

\* the constructor call of a declaration
Construct(d) ==
    CASE d.cls = "IntField" -> IntFieldInit(d)
      [] d.cls = "FloatField" -> FloatFieldInit(d)
      [] d.cls = "BoolField" -> BoolFieldInit(d)
      [] OTHER -> BaseFieldInit(d)

\* BoolField.from_representation(data)
BoolFromRepresentation(field, data) ==
    IF PyIn(data, field.TRUE_VALUES).exc # "none"
    THEN Raise("TypeError", StrV("unhashable type: " \o data.t))
    ELSE IF PyIn(data, field.TRUE_VALUES).in THEN Ok(BoolV(TRUE))
    ELSE IF PyIn(data, field.FALSE_VALUES).in THEN Ok(BoolV(FALSE))
    ELSE Raise("ValueError", StrV("bool type value must be one of {values}"))

\* a to_representation that always answers with the default pair
BoolToRepresentationDefault(field, value) ==
    IF value.t \notin {"int", "bool"}
    THEN Raise("TypeError", StrV("tuple indices must be integers or slices, not " \o value.t))
    ELSE IF value.i \in {0, -2} THEN Ok(_DEFAULT_REPRESENTATIONS[1])
    ELSE IF value.i \in {1, -1} THEN Ok(_DEFAULT_REPRESENTATIONS[2])
    ELSE Raise("IndexError", StrV("tuple index out of range"))

\* BoolField.to_representation(value): self.representations[value], the
\* index of a two-tuple
BoolToRepresentation(field, value) ==
    IF value.t \notin {"int", "bool"}
    THEN Raise("TypeError", StrV("tuple indices must be integers or slices, not " \o value.t))
    ELSE IF value.i \in {0, -2} THEN Ok(field.representations[1])
    ELSE IF value.i \in {1, -1} THEN Ok(field.representations[2])
    ELSE Raise("IndexError", StrV("tuple index out of range"))

\* field.from_representation(data) of the built-in field classes
FieldFromRepresentation(field, data) ==
    CASE field.type = "raw" -> Ok(data)
      [] field.type = "string" -> Ok(PyStr(data))
      [] field.type = "int" -> PyInt(data)
      [] field.type = "float" -> PyFloat(data)
      [] field.type = "bool" -> BoolFromRepresentation(field, data)

\* field.to_representation(value) of the built-in field classes
FieldToRepresentation(field, value) ==
    CASE field.type = "raw" -> Ok(value)
      [] field.type = "string" -> Ok(PyStr(value))
      [] field.type = "int" -> PyInt(value)
      [] field.type = "float" -> PyFloat(value)
      [] field.type = "bool" -> BoolToRepresentation(field, value)

\* BaseField.validate(value): the validators are called in list order and the
\* first one that raises ends the call
RECURSIVE RunValidators(_, _, _)
RunValidators(validators, i, value) ==
    IF i > Len(validators) THEN Ok(NoneV)
    ELSE LET r == CallValidator(validators[i], value)
         IN  IF r.exc # "none" THEN r
             ELSE RunValidators(validators, i + 1, value)

\* a validate that calls every validator and keeps the last failure
FieldValidateLast(field, value) ==
    LET bad == {n \in DOMAIN field.validators :
                   CallValidator(field.validators[n], value).exc # "none"}
        last == CHOOSE n \in bad : \A m \in bad : m <= n
    IN  IF bad = {} THEN Ok(NoneV)
        ELSE CallValidator(field.validators[last], value)

FieldValidate(field, value) == RunValidators(field.validators, 1, value)

(***************************************************************************)
(* BaseSerializer (graceful.serializers).                                  *)
(***************************************************************************)
\* a _source without the wildcard case
_sourceLiteral(name, field) == IF field.source # "" THEN field.source ELSE name

\* _source(name, field): the key of the internal object a field writes to
_source(name, field) ==
    IF field.source = "*" THEN name
    ELSE IF field.source # "" THEN field.source ELSE name

\* {_source(name, field): field for name, field in self.fields.items()}
RECURSIVE SourcesDict(_, _)
SourcesDict(flds, n) ==
    IF n = 0 THEN <<>>
    ELSE DictPut(SourcesDict(flds, n - 1), _source(flds[n].name, flds[n]), flds[n])

\* {_source(name, field): name for name, field in self.fields.items()}
RECURSIVE SourcesToFieldNames(_, _)
SourcesToFieldNames(flds, n) ==
    IF n = 0 THEN <<>>
    ELSE DictPut(SourcesToFieldNames(flds, n - 1),
                 _source(flds[n].name, flds[n]), flds[n].name)

\* the loop of validate that fills `invalid`: sources[name].validate(value)
\* for every item of object_dict; an exception that is no ValidationError
\* leaves the loop
RECURSIVE InvalidLoop(_, _, _, _)
InvalidLoop(sources, od, n, invalid) ==
    IF n > Len(od) THEN [exc |-> "none", invalid |-> invalid]
    ELSE IF ~DictHas(sources, od[n].k)
    THEN [exc |-> "KeyError", invalid |-> invalid]
    ELSE LET r == FieldValidate(DictGet(sources, od[n].k), od[n].v)
         IN  CASE r.exc = "none" -> InvalidLoop(sources, od, n + 1, invalid)
               [] r.exc = "ValidationError" ->
                    InvalidLoop(sources, od, n + 1, DictPut(invalid, od[n].k, r.msg))
               [] OTHER -> [exc |-> r.exc, invalid |-> invalid]

\* BaseSerializer.validate(object_dict, partial): returns None (exc "none")
\* or raises; a DeserializationError carries missing, forbidden and invalid
\* with the sources translated back to field names
Validate(flds, od, part) ==
    LET sources == SourcesDict(flds, Len(flds))
        IsMissing(name) ==
            /\ ~part
            /\ ~DictHas(od, name)
            /\ ~DictGet(sources, name).read_only
        missing == SelectSeq(DictKeyList(sources), IsMissing)
        \* any((name not in sources, sources[name].read_only)) evaluates both
        \* items: sources[name] of an unknown name is a KeyError
        unknown == {name \in DictKeys(od) : ~DictHas(sources, name)}
        IsForbidden(name) == DictGet(sources, name).read_only
        forbidden == SelectSeq(DictKeyList(od), IsForbidden)
        inv == InvalidLoop(sources, od, 1, <<>>)
        names == SourcesToFieldNames(flds, Len(flds))
        Tr(name) == IF DictHas(names, name) THEN DictGet(names, name) ELSE name
        none == [exc |-> "none", missing |-> <<>>, forbidden |-> <<>>, invalid |-> <<>>]
    IN  IF unknown # {} THEN [none EXCEPT !.exc = "KeyError"]
        ELSE IF inv.exc # "none" THEN [none EXCEPT !.exc = inv.exc]
        ELSE IF missing # <<>> \/ forbidden # <<>> \/ inv.invalid # <<>>
        THEN [exc |-> "DeserializationError",
              missing |-> [n \in DOMAIN missing |-> Tr(missing[n])],
              forbidden |-> [n \in DOMAIN forbidden |-> Tr(forbidden[n])],
              invalid |-> [n \in DOMAIN inv.invalid |->
                              [k |-> Tr(inv.invalid[n].k), v |-> inv.invalid[n].v]]]
        ELSE none

\* BaseSerializer.get_attribute(obj, attr) of a mapping obj
get_attribute(obj, attr) ==
    IF attr = "*" THEN DictV(obj)
    ELSE IF DictHas(obj, attr) THEN DictGet(obj, attr) ELSE NoneV

\* the characters of the texts that occur as values
Chars(x) ==
    CASE x = "foo" -> <<StrV("f"), StrV("o"), StrV("o")>>
      [] x = "aa" -> <<StrV("a"), StrV("a")>>
      [] x = "bb" -> <<StrV("b"), StrV("b")>>
      [] x = "" -> <<>>
      [] OTHER -> <<StrV(x)>>

\* `for item in attribute`: the items of a list, the characters of a str,
\* the keys of a dict; an int and None are not iterable
PyIter(v) ==
    CASE v.t = "list" -> Ok(ListV(v.l))
      [] v.t = "str" -> Ok(ListV(Chars(v.s)))
      [] v.t = "dict" -> Ok(ListV([n \in DOMAIN v.d |-> StrV(v.d[n].k)]))
      [] OTHER -> Raise("TypeError", StrV(v.t \o " object is not iterable"))

\* field.to_representation of every item of a many field's attribute, in order
RECURSIVE ItemsToRepresentation(_, _, _, _)
ItemsToRepresentation(field, items, n, done) ==
    IF n > Len(items) THEN Ok(ListV(done))
    ELSE LET r == FieldToRepresentation(field, items[n])
         IN  IF r.exc # "none" THEN r
             ELSE ItemsToRepresentation(field, items, n + 1, Append(done, r.val))

\* an iteration that hands the attribute to the field without the None test
FieldEntryNoSkip(field, obj) ==
    LET attribute == get_attribute(obj, IF field.source # "" THEN field.source
                                        ELSE field.name)
    IN  IF field.many
        THEN IF PyIter(attribute).exc = "none"
             THEN ItemsToRepresentation(field, PyIter(attribute).val.l, 1, <<>>)
             ELSE PyIter(attribute)
        ELSE FieldToRepresentation(field, attribute)

\* one iteration of to_representation's loop: the entry for one field
FieldEntry(field, obj) ==
    LET attribute == get_attribute(obj, IF field.source # "" THEN field.source
                                        ELSE field.name)
    IN  IF attribute = NoneV
        THEN Ok(IF field.many THEN ListV(<<>>) ELSE NoneV)
        ELSE IF field.many
        THEN IF PyIter(attribute).exc = "none"
             THEN ItemsToRepresentation(field, PyIter(attribute).val.l, 1, <<>>)
             ELSE PyIter(attribute)
        ELSE FieldToRepresentation(field, attribute)

\* BaseSerializer.to_representation(obj)
RECURSIVE ToRepresentationLoop(_, _, _, _)
ToRepresentationLoop(flds, obj, n, rep) ==
    IF n > Len(flds) THEN [exc |-> "none", rep |-> rep]
    ELSE LET r == FieldEntry(flds[n], obj)
         IN  IF r.exc # "none" THEN [exc |-> r.exc, rep |-> <<>>]
             ELSE ToRepresentationLoop(flds, obj, n + 1,
                                       DictPut(rep, flds[n].name, r.val))

(***************************************************************************)
(* The serializer classes of the model: the class bodies of the           *)
(* repository's tests and of the specification's scenarios.                *)
(***************************************************************************)
\* writable / readonly / unsigned of tests/test_generic.py
UpdateSerializer ==
    << Decl("writable", "RawField", "", <<>>, FALSE, FALSE, <<>>, <<>>, {}),
       Decl("readonly", "RawField", "", <<>>, FALSE, TRUE, <<>>, <<>>, {}),
       Decl("unsigned", "IntField", "", <<min_validator(0)>>, FALSE, FALSE,
            <<>>, <<>>, {}) >>

\* fields with sources (tests/test_serializers.py), a wildcard source, two
\* validators on one field and a read-only number with a bound
SourcesSerializer ==
    << Decl("name", "StringField", "_name", <<>>, FALSE, FALSE, <<>>, <<>>, {}),
       Decl("level", "IntField", "*",
            <<choices_validator({IntV(0), IntV(2)}, "[0, 2]")>>, FALSE, FALSE,
            <<>>, <<0>>, {}),
       Decl("serial", "IntField", "", <<>>, FALSE, TRUE, <<1>>, <<>>, {}) >>

\* many=True fields (tests/test_serializers.py)
ManySerializer ==
    << Decl("up", "StringField", "",
            <<choices_validator({StrV("aa"), StrV("bb")}, "['aa', 'bb']")>>,
            TRUE, FALSE, <<>>, <<>>, {}),
       Decl("nums", "IntField", "", <<>>, TRUE, FALSE, <<1>>, <<>>, {}) >>

\* readonly / writeonly of tests/test_serializers.py
ReadWriteOnlySerializer ==
    << Decl("readonly", "RawField", "", <<>>, FALSE, TRUE, <<>>, <<>>, {}),
       Decl("writeonly", "RawField", "", <<>>, FALSE, FALSE, <<>>, <<>>,
            {"write_only"}) >>

ClassBodies ==
    {UpdateSerializer, SourcesSerializer, ManySerializer, ReadWriteOnlySerializer}

\* the raw values a decoded JSON payload holds under a key
RawValues ==
    {IntV(n) : n \in Ints}
        \cup {StrV("1"), StrV("foo"), NoneV, ListV(<<StrV("aa"), StrV("bb")>>)}

\* a key no serializer declares
UnknownKey == "bogus"

FieldNames(flds) == {flds[n].name : n \in DOMAIN flds}

\* the payloads: any subset of the declared names and the unknown key
Representations(flds) ==
    UNION {[keys -> RawValues] : keys \in SUBSET (FieldNames(flds) \cup {UnknownKey})}

\* the values an internal object holds
InternalValues ==
    {IntV(1), StrV("foo"), NoneV, ListV(<<StrV("aa"), StrV("bb")>>),
     ListV(<<IntV(1), IntV(0)>>)}

\* the keys an internal object may hold, in the order it holds them: the
\* sources of the fields and a key no field reads
InstanceKeys(flds) ==
    LET srcs == DictKeyList(SourcesDict(flds, Len(flds)))
    IN  Append(srcs, "gender")

RECURSIVE InstancesUpTo(_, _)
InstancesUpTo(keys, n) ==
    IF n = 0 THEN {<<>>}
    ELSE LET shorter == InstancesUpTo(keys, n - 1)
         IN  shorter \cup
             {Append(o, [k |-> keys[n], v |-> v]) : o \in shorter, v \in InternalValues}

Instances(flds) == InstancesUpTo(InstanceKeys(flds), Len(InstanceKeys(flds)))

\* a DeserializationError: its four attributes, `unset` naming those that
\* are None
NoError ==
    [missing |-> <<>>, forbidden |-> <<>>, invalid |-> <<>>, failed |-> <<>>,
     unset |-> {}]

(***************************************************************************)
(* The state machine.                                                      *)
(***************************************************************************)
InitSerializer ==
    /\ pc = "define"
    /\ call = "none"
    /\ body = <<>>
    /\ fields = <<>>
    /\ representation = <<>>
    /\ partial = FALSE
    /\ idx = 0
    /\ object_dict = <<>>
    /\ failed = <<>>
    /\ outcome = "none"
    /\ err = NoError
    /\ validate_calls = <<>>
    /\ instance = <<>>
    /\ output = <<>>

\* class creation (MetaSerializer.__new__): the declarations of the body are
\* constructed in order and collected into the registry; a constructor that
\* raises ends the class statement
DefineSerializer ==
    /\ pc = "define"
    /\ \E b \in ClassBodies :
        /\ body' = b
        /\ IF \E n \in DOMAIN b : Construct(b[n]).exc # "none"
           THEN /\ fields' = <<>>
                /\ outcome' = Construct(b[CHOOSE n \in DOMAIN b :
                                            Construct(b[n]).exc # "none"]).exc
                /\ pc' = "done"
           ELSE /\ fields' = [n \in DOMAIN b |-> Construct(b[n]).field]
                /\ outcome' = "none"
                /\ pc' = "ready"
    /\ UNCHANGED <<call, representation, partial, idx, object_dict, failed, err,
                   validate_calls, instance, output>>
    /\ UNCHANGED outsideSerializer

\* require_validated(req, partial): the payload is decoded and handed to
\* serializer.from_representation, which starts with empty object_dict and
\* failed
RequireValidated ==
    /\ pc = "ready"
    /\ \E rep \in Representations(fields), p \in BOOLEAN :
        /\ representation' = rep
        /\ partial' = p
    /\ idx' = 1
    /\ object_dict' = <<>>
    /\ failed' = <<>>
    /\ pc' = "coerce"
    /\ call' = "require_validated"
    /\ UNCHANGED <<body, fields, outcome, err, validate_calls, instance, output>>
    /\ UNCHANGED outsideSerializer

\* one iteration of from_representation's loop over self.fields.items()
CoerceField ==
    /\ pc = "coerce"
    /\ idx <= Len(fields)
    /\ LET field == fields[idx]
           r == FieldFromRepresentation(field, representation[field.name])
       IN  IF field.name \notin DOMAIN representation
           THEN /\ idx' = idx + 1
                /\ UNCHANGED <<object_dict, failed, outcome, pc>>
           ELSE CASE r.exc = "none" ->
                        /\ object_dict' = DictPut(object_dict,
                                                  _source(field.name, field), r.val)
                        /\ idx' = idx + 1
                        /\ UNCHANGED <<failed, outcome, pc>>
                  [] r.exc = "ValueError" ->
                        /\ failed' = DictPut(failed, field.name, r.msg)
                        /\ idx' = idx + 1
                        /\ UNCHANGED <<object_dict, outcome, pc>>
                  [] OTHER ->
                        /\ outcome' = r.exc
                        /\ pc' = "done"
                        /\ UNCHANGED <<object_dict, failed, idx>>
    /\ UNCHANGED <<call, body, fields, representation, partial, err,
                   validate_calls, instance, output>>
    /\ UNCHANGED outsideSerializer

\* the DeserializationError that leaves a call of validate, or the bare
\* DeserializationError() from_representation raises itself
ErrorOf(v, failedNow, failedSet) ==
    IF v.exc = "DeserializationError"
    THEN [missing |-> v.missing, forbidden |-> v.forbidden, invalid |-> v.invalid,
          failed |-> failedNow, unset |-> IF failedSet THEN {} ELSE {"failed"}]
    ELSE [missing |-> <<>>, forbidden |-> <<>>, invalid |-> <<>>,
          failed |-> failedNow, unset |-> {"missing", "forbidden", "invalid"}]

\* a from_representation without its `if failed:` block
AfterLoopReturn(failedNow) == "return"

\* `if failed:` after the loop: the eager validation, or `return object_dict`
AfterLoop(failedNow) == IF failedNow # <<>> THEN "validate" ELSE "return"

\* the end of from_representation when a field failed to parse: validate is
\* called eagerly (partial left at its default) and the error that leaves
\* gets err.failed = failed
EagerValidate ==
    /\ pc = "coerce"
    /\ idx > Len(fields)
    /\ AfterLoop(failed) = "validate"
    /\ LET v == Validate(fields, object_dict, FALSE)
       IN  /\ validate_calls' = Append(validate_calls,
                  [caller |-> "from_representation", object_dict |-> object_dict,
                   partial |-> FALSE, failed |-> failed])
           /\ IF v.exc \in {"none", "DeserializationError"}
              THEN /\ outcome' = "DeserializationError"
                   /\ err' = ErrorOf(v, failed, TRUE)
              ELSE /\ outcome' = v.exc
                   /\ err' = err
    /\ pc' = "done"
    /\ UNCHANGED <<call, body, fields, representation, partial, idx,
                   object_dict, failed, instance, output>>
    /\ UNCHANGED outsideSerializer

\* the end of from_representation when nothing failed: object_dict is returned
ReturnObjectDict ==
    /\ pc = "coerce"
    /\ idx > Len(fields)
    /\ AfterLoop(failed) = "return"
    /\ pc' = "returned"
    /\ UNCHANGED <<call, body, fields, representation, partial, idx,
                   object_dict, failed, outcome, err, validate_calls, instance,
                   output>>
    /\ UNCHANGED outsideSerializer

\* require_validated's own call: self.serializer.validate(object_dict, partial)
ValidateObjectDict ==
    /\ pc = "returned"
    /\ call = "require_validated"
    /\ LET v == Validate(fields, object_dict, partial)
       IN  /\ validate_calls' = Append(validate_calls,
                  [caller |-> "require_validated", object_dict |-> object_dict,
                   partial |-> partial, failed |-> failed])
           /\ IF v.exc = "DeserializationError"
              THEN /\ outcome' = "DeserializationError"
                   /\ err' = ErrorOf(v, <<>>, FALSE)
              ELSE /\ outcome' = IF v.exc = "none" THEN "returned" ELSE v.exc
                   /\ err' = err
    /\ pc' = "done"
    /\ UNCHANGED <<call, body, fields, representation, partial, idx,
                   object_dict, failed, instance, output>>
    /\ UNCHANGED outsideSerializer

\* serializer.to_representation(obj)
ToRepresentation ==
    /\ pc = "ready"
    /\ \E obj \in Instances(fields) :
        LET r == ToRepresentationLoop(fields, obj, 1, <<>>)
        IN  /\ instance' = obj
            /\ output' = r.rep
            /\ outcome' = IF r.exc = "none" THEN "represented" ELSE r.exc
    /\ pc' = "done"
    /\ call' = "to_representation"
    /\ UNCHANGED <<body, fields, representation, partial, idx, object_dict,
                   failed, err, validate_calls>>
    /\ UNCHANGED outsideSerializer

\* serializer.from_representation(serializer.to_representation(obj)): the
\* representation just made is handed back to from_representation
RoundTrip ==
    /\ pc = "done"
    /\ call = "to_representation"
    /\ outcome = "represented"
    /\ representation' = DictItems(output)
    /\ idx' = 1
    /\ object_dict' = <<>>
    /\ failed' = <<>>
    /\ outcome' = "none"
    /\ pc' = "coerce"
    /\ call' = "round_trip"
    /\ UNCHANGED <<body, fields, partial, err, validate_calls, instance, output>>
    /\ UNCHANGED outsideSerializer

(***************************************************************************)
(* One field object on its own: it is constructed, and then one of its     *)
(* methods is called, or it is validated as the only field of a            *)
(* serializer; a conversion may be followed by the opposite conversion of  *)
(* its result.                                                             *)
(***************************************************************************)
\* None or a small bound, as max_value and min_value are passed
BoundChoices == {<<>>} \cup {<<n>> : n \in 0 .. MaxInt - 1}

\* the declarations: every built-in field class, BoolField with the default
\* and with given representations, the number fields with every pair of
\* bounds and with a validator of the user ahead of them
FieldDecls ==
    {Decl("f", cls, "", <<>>, FALSE, FALSE, <<>>, <<>>, {}) :
        cls \in {"RawField", "StringField"}}
    \cup {BoolDecl("f", r) :
            r \in {<<>>, <<StrV("no"), StrV("yes")>>, <<IntV(0), IntV(1)>>}}
    \cup {Decl("f", cls, "", vs, FALSE, FALSE, hi, lo, {}) :
            cls \in {"IntField", "FloatField"},
            vs \in {<<>>, <<choices_validator({IntV(0), IntV(2)}, "[0, 2]")>>},
            hi \in BoundChoices, lo \in BoundChoices}

\* the spellings BoolField documents, and texts it does not
BoolTexts ==
    {"True", "true", "TRUE", "T", "t", "1", "False", "false", "FALSE", "F",
     "f", "0", "f0", "yes", "no"}

\* the values handed to a field: numbers of the three kinds, texts, None
\* and a list
FieldData ==
    {IntV(n) : n \in Ints} \cup {BoolV(b) : b \in BOOLEAN}
        \cup {FloatV(h) : h \in -1 .. 2 * MaxInt}
        \cup {StrV(x) : x \in BoolTexts \cup {"foo", "1.5", "2"}}
        \cup {NoneV, ListV(<<IntV(1)>>)}

InitField ==
    /\ field_obj = NoField
    /\ field_call = "none"
    /\ field_arg = NoneV
    /\ field_mid = Ok(NoneV)
    /\ field_result = Ok(NoneV)
    /\ field_err = NoError

InitRegistry ==
    /\ metaclass = "none"
    /\ classes = <<>>
    /\ class_error = "none"

InitParams ==
    /\ params = <<>>
    /\ req_params = <<>>
    /\ param_pc = "define"
    /\ param_idx = 1
    /\ decoded = <<>>
    /\ param_outcome = "none"
    /\ param_error = [names |-> <<>>, name |-> "", msg |-> NoneV]
    /\ param_decl = [name |-> "", cls |-> "", required |-> FALSE,
                     default |-> <<>>, many |-> FALSE, validators |-> <<>>]

InitShared ==
    /\ shared_pc = "define"
    /\ shared_fields = <<>>
    /\ shared_params = <<>>
    /\ frames = [c \in 1 .. MaxCalls |->
                    [op |-> "none", arg |-> <<>>, given |-> <<>>, pos |-> 0,
                     acc |-> <<>>, failed |-> <<>>,
                     result |-> [exc |-> "none", val |-> <<>>]]]

InitDoc ==
    /\ doc_pc = "define"
    /\ doc_fields = <<>>
    /\ doc_call = [method |-> "none", index |-> 0, kwargs |-> <<>>]
    /\ doc_output = <<>>

InitRequest ==
    /\ http_pc = "ready"
    /\ http_request = [method |-> "none", body |-> [list |-> FALSE, items |-> <<>>]]
    /\ http_pos = 1
    /\ object_dicts = <<>>
    /\ handler_calls = <<>>
    /\ storage = <<>>
    /\ http_status = "none"

InitAuth ==
    /\ auth_pc = "configure"
    /\ middleware = <<>>
    /\ FALCON_VERSION = <<0, 0, 0>>
    /\ headers = [Authorization |-> <<>>, XApiKey |-> "", XForwardedFor |-> <<>>]
    /\ context = <<>>
    /\ auth_pos = 1
    /\ auth_result = [exc |-> "none", args |-> <<>>]

InitKv ==
    /\ kv_store = <<>>
    /\ registered = <<>>
    /\ kv_call = [method |-> "none", name |-> "", identifier |-> NoneV]
    /\ kv_result = [exc |-> "none", val |-> NoneV, msg |-> NoneV]

InitDirect ==
    /\ direct_pc = "define"
    /\ direct_fields = <<>>
    /\ direct_call = [object_dict |-> <<>>, partial |-> FALSE]
    /\ direct_result =
          [exc |-> "none", missing |-> <<>>, forbidden |-> <<>>, invalid |-> <<>>]

InitLists ==
    /\ heap = <<>>
    /\ caller_list = 0
    /\ original = <<>>
    /\ built_fields = <<>>
    /\ validated_with = [field |-> 0, value |-> NoneV, result |-> Ok(NoneV)]

Init ==
    /\ InitSerializer /\ InitField /\ InitRegistry /\ InitParams
    /\ InitShared /\ InitDoc /\ InitRequest /\ InitAuth /\ InitKv
    /\ InitDirect /\ InitLists

\* field = cls(...)
FieldInit ==
    /\ field_call = "none"
    /\ \E d \in FieldDecls :
        /\ field_obj' = Construct(d).field
        /\ field_result' = [Ok(NoneV) EXCEPT !.exc = Construct(d).exc]
    /\ field_call' = "__init__"
    /\ UNCHANGED <<field_arg, field_mid, field_err>>
    /\ UNCHANGED outsideField

\* field.from_representation(data)
FieldFromRepresentationCall ==
    /\ field_call = "__init__"
    /\ \E data \in FieldData :
        /\ field_arg' = data
        /\ field_result' = FieldFromRepresentation(field_obj, data)
    /\ field_call' = "from_representation"
    /\ field_mid' = Ok(NoneV)
    /\ UNCHANGED <<field_obj, field_err>>
    /\ UNCHANGED outsideField

\* field.to_representation(value)
FieldToRepresentationCall ==
    /\ field_call = "__init__"
    /\ \E value \in FieldData :
        /\ field_arg' = value
        /\ field_result' = FieldToRepresentation(field_obj, value)
    /\ field_call' = "to_representation"
    /\ field_mid' = Ok(NoneV)
    /\ UNCHANGED <<field_obj, field_err>>
    /\ UNCHANGED outsideField

\* field.from_representation(field.to_representation(value))
FieldFromBack ==
    /\ field_call = "to_representation"
    /\ field_result.exc = "none"
    /\ field_mid' = field_result
    /\ field_result' = FieldFromRepresentation(field_obj, field_result.val)
    /\ field_call' = "from(to)"
    /\ UNCHANGED <<field_obj, field_arg, field_err>>
    /\ UNCHANGED outsideField

\* field.to_representation(field.from_representation(data))
FieldToBack ==
    /\ field_call = "from_representation"
    /\ field_result.exc = "none"
    /\ field_mid' = field_result
    /\ field_result' = FieldToRepresentation(field_obj, field_result.val)
    /\ field_call' = "to(from)"
    /\ UNCHANGED <<field_obj, field_arg, field_err>>
    /\ UNCHANGED outsideField

\* field.validate(value)
FieldValidateCall ==
    /\ field_call = "__init__"
    /\ \E value \in FieldData :
        /\ field_arg' = value
        /\ field_result' = FieldValidate(field_obj, value)
    /\ field_call' = "validate"
    /\ field_mid' = Ok(NoneV)
    /\ UNCHANGED <<field_obj, field_err>>
    /\ UNCHANGED outsideField

\* serializer.validate({name: value}) of a serializer whose only field is
\* this one
SerializerValidateCall ==
    /\ field_call = "__init__"
    /\ \E value \in FieldData :
        LET v == Validate(<<field_obj>>, <<[k |-> field_obj.name, v |-> value]>>,
                          FALSE)
        IN  /\ field_arg' = value
            /\ field_result' = [Ok(NoneV) EXCEPT !.exc = v.exc]
            /\ field_err' = IF v.exc = "DeserializationError"
                            THEN ErrorOf(v, <<>>, FALSE)
                            ELSE NoError
    /\ field_call' = "serializer.validate"
    /\ field_mid' = Ok(NoneV)
    /\ UNCHANGED field_obj
    /\ UNCHANGED outsideField

FieldNext ==
    \/ FieldInit
    \/ FieldFromRepresentationCall
    \/ FieldToRepresentationCall
    \/ FieldFromBack
    \/ FieldToBack
    \/ FieldValidateCall
    \/ SerializerValidateCall

FieldSpec == Init /\ [][FieldNext]_vars

(***************************************************************************)
(* Class creation by MetaSerializer and MetaResource.  An attribute of a   *)
(* class body is known by its class (BaseField, BaseParam or any other)    *)
(* and by the class statement that wrote it; a class is known by its       *)
(* position in `classes`.                                                  *)
(***************************************************************************)
Attribute(cls, owner) == [cls |-> cls, owner |-> owner]

\* list(d.items()) + more
RECURSIVE ItemsBefore(_, _, _)
ItemsBefore(clss, bases, n) ==
    IF n = 0 THEN <<>>
    ELSE ItemsBefore(clss, bases, n - 1) \o clss[bases[n]].registry

\* OrderedDict(items): a key keeps the place of its first item and gets the
\* value of its last
RECURSIVE OrderedDict(_, _)
OrderedDict(items, n) ==
    IF n = 0 THEN <<>>
    ELSE DictPut(OrderedDict(items, n - 1), items[n].k, items[n].v)

\* the entries of a namespace that are instances of cls, in order, and the
\* namespace they were popped from
Declared(namespace, cls) == SelectSeq(namespace, LAMBDA e : e.v.cls = cls)

\* a namespace nothing is popped from
PoppedNothing(namespace, cls) == namespace

Popped(namespace, cls) == SelectSeq(namespace, LAMBDA e : e.v.cls # cls)

\* a _get_fields that puts the items of the bases after the class's own
_get_fieldsOwnFirst(clss, bases, namespace) ==
    LET own == Declared(namespace, "BaseField")
        all == own \o ItemsBefore(clss, bases, Len(bases))
    IN  OrderedDict(all, Len(all))

\* MetaSerializer._get_fields(bases, namespace): `for base in
\* reversed(bases): fields = list(base._fields.items()) + fields` leaves the
\* items of bases[0] first and the class's own last
_get_fields(clss, bases, namespace) ==
    LET own == Declared(namespace, "BaseField")
        all == ItemsBefore(clss, bases, Len(bases)) \o own
    IN  OrderedDict(all, Len(all))

\* MetaResource._get_params(bases, namespace)
_get_params(clss, bases, namespace) ==
    LET own == Declared(namespace, "BaseParam")
        all == ItemsBefore(clss, bases, Len(bases)) \o own
    IN  OrderedDict(all, Len(all))

\* the C3 merge of type.__new__: the head of the first list that is in the
\* tail of no list comes next; <<0>> ends the result when there is none
RECURSIVE Merge(_)
Merge(lists) ==
    LET left == SelectSeq(lists, LAMBDA l : l # <<>>)
        Good(l) == \A m \in DOMAIN left :
                      \A j \in 2 .. Len(left[m]) : left[m][j] # l[1]
        good == SelectSeq(left, Good)
        Without(l) == SelectSeq(l, LAMBDA x : x # good[1][1])
    IN  IF left = <<>> THEN <<>>
        ELSE IF good = <<>> THEN <<0>>
        ELSE <<good[1][1]>> \o Merge([m \in DOMAIN left |-> Without(left[m])])

\* the method resolution order of a class with the given bases, itself left out
RECURSIVE MroOf(_, _)
MroOf(clss, bases) ==
    Merge([n \in DOMAIN bases |->
              <<bases[n]>> \o MroOf(clss, clss[bases[n]].bases)]
          \o <<bases>>)

\* MetaSerializer.__new__ / MetaResource.__new__: the registry is taken out of
\* the namespace and type.__new__ creates the class, or raises TypeError
\* when the bases have no consistent method resolution order
MetaNew(meta, clss, bases, namespace) ==
    LET cls == IF meta = "MetaSerializer" THEN "BaseField" ELSE "BaseParam"
        registry == IF meta = "MetaSerializer"
                    THEN _get_fields(clss, bases, namespace)
                    ELSE _get_params(clss, bases, namespace)
    IN  IF 0 \in Range(MroOf(clss, bases))
        THEN [exc |-> "TypeError", class |-> <<>>]
        ELSE [exc |-> "none",
              class |-> [bases |-> bases, body |-> namespace,
                         namespace |-> Popped(namespace, cls),
                         registry |-> registry]]

\* the body of BaseSerializer (methods only) and of BaseResource (the
\* parameter indent, then serializer = None and the methods)
BaseBody(meta) ==
    IF meta = "MetaSerializer"
    THEN <<[k |-> "describe", v |-> Attribute("other", 1)]>>
    ELSE <<[k |-> "indent", v |-> Attribute("BaseParam", 1)],
           [k |-> "serializer", v |-> Attribute("other", 1)]>>

\* the names a class body of the model declares or sets
BodyNames == {"a", "b", "c", "helper"}

\* the sequences of up to n distinct names
RECURSIVE NameSeqs(_)
NameSeqs(n) ==
    IF n = 0 THEN {<<>>}
    ELSE LET shorter == NameSeqs(n - 1)
         IN  shorter \cup {Append(q, x) : q \in shorter, x \in BodyNames}

\* the class bodies written by class number `owner`: a, b and c are
\* declarations of the metaclass's kind, helper is any other attribute
Bodies(meta, owner) ==
    {[n \in DOMAIN q |->
        [k |-> q[n],
         v |-> Attribute(IF q[n] = "helper" THEN "other"
                         ELSE IF meta = "MetaSerializer" THEN "BaseField"
                         ELSE "BaseParam", owner)]] :
        q \in {x \in NameSeqs(MaxBody) :
                 \A i, j \in DOMAIN x : i # j => x[i] # x[j]}}

\* the base lists of a class statement: one or two distinct classes
BaseLists(clss) ==
    {<<x>> : x \in DOMAIN clss}
        \cup {q \in {<<x, y>> : x \in DOMAIN clss, y \in DOMAIN clss} : q[1] # q[2]}

\* the module of the library is imported: BaseSerializer or BaseResource is
\* created by its metaclass
CreateBaseClass ==
    /\ metaclass = "none"
    /\ \E meta \in {"MetaSerializer", "MetaResource"} :
        /\ metaclass' = meta
        /\ classes' = <<MetaNew(meta, <<>>, <<>>, BaseBody(meta)).class>>
    /\ class_error' = "none"
    /\ UNCHANGED outsideRegistry

\* class Name(bases...): body
CreateClass ==
    /\ metaclass # "none"
    /\ class_error = "none"
    /\ Len(classes) < MaxClasses + 1
    /\ \E bases \in BaseLists(classes),
          namespace \in Bodies(metaclass, Len(classes) + 1) :
        LET new == MetaNew(metaclass, classes, bases, namespace)
        IN  /\ class_error' = new.exc
            /\ classes' = IF new.exc = "none" THEN Append(classes, new.class)
                          ELSE classes
    /\ UNCHANGED metaclass
    /\ UNCHANGED outsideRegistry

RegistryNext ==
    \/ CreateBaseClass
    \/ CreateClass

RegistrySpec == Init /\ [][RegistryNext]_vars

(***************************************************************************)
(* Parameters (graceful.parameters) and their decoding by                  *)
(* BaseResource.require_params.  A declaration is the constructor call     *)
(* written in the body of a resource class; default is <<>> for            *)
(* default=None and <<v>> for default=v.  req.params maps a name of the     *)
(* query string to the values given for it, one per occurrence.            *)
(***************************************************************************)
ParamDecl(name, cls, required, default, many, validators) ==
    [name |-> name, cls |-> cls, required |-> required, default |-> default,
     many |-> many, validators |-> validators]

\* the `type` attribute of the parameter classes
ParamType(cls) ==
    CASE cls \in {"StringParam", "StringSetParam", "StringSetMethodParam"} ->
            "string"
      [] cls = "IntParam" -> "integer"

\* the `container` attribute: list in BaseParam; the subclasses of the tests
\* replace it by the type set (StringSetParam) or by a method that returns
\* set(values) (StringSetMethodParam)
ParamContainer(cls) ==
    CASE cls = "StringSetParam" -> "set"
      [] cls = "StringSetMethodParam" -> "method"
      [] OTHER -> "list"

\* a set: its items without repetition, in one fixed order, so that two sets
\* of the same items are the same value
SetV(items) ==
    [t |-> "set", i |-> 0, s |-> "",
     l |-> CHOOSE q \in [1 .. Cardinality(items) -> items] : Range(q) = items,
     d |-> NoItems]

\* param.container(values)
Container(container, values) ==
    CASE container = "list" -> values
      [] container \in {"set", "method"} -> SetV(Range(values.l))

NoParam ==
    [name |-> "", type |-> "", required |-> FALSE, default |-> <<>>,
     many |-> FALSE, validators |-> <<>>, container |-> "list"]

\* a constructor that accepts a default on a required parameter
BaseParamInitLenient(d) ==
    IF d.default # <<>> /\ d.default[1].t # "str"
    THEN [exc |-> "TypeError", param |-> NoParam]
    ELSE [exc |-> "none",
          param |-> [name |-> d.name, type |-> ParamType(d.cls),
                     required |-> d.required, default |-> d.default,
                     many |-> d.many, validators |-> d.validators,
                     container |-> ParamContainer(d.cls)]]

\* BaseParam.__init__(details, label, required, default, many, validators):
\* TypeError for a default that is no str, ValueError for a default on a
\* required parameter
BaseParamInit(d) ==
    IF d.default # <<>> /\ d.default[1].t # "str"
    THEN [exc |-> "TypeError", param |-> NoParam]
    ELSE IF d.default # <<>> /\ d.required
    THEN [exc |-> "ValueError", param |-> NoParam]
    ELSE [exc |-> "none",
          param |-> [name |-> d.name, type |-> ParamType(d.cls),
                     required |-> d.required, default |-> d.default,
                     many |-> d.many, validators |-> d.validators,
                     container |-> ParamContainer(d.cls)]]

\* param.value(raw_value): StringParam returns it as it is, IntParam calls int
ParamValue(param, raw_value) ==
    CASE param.type = "string" -> Ok(raw_value)
      [] param.type = "integer" -> PyInt(raw_value)

\* param.validated_value(raw_value): value(), then every validator in list
\* order; the value is returned unless one of the calls raised
validated_value(param, raw_value) ==
    LET value == ParamValue(param, raw_value)
    IN  IF value.exc # "none" THEN value
        ELSE LET checked == RunValidators(param.validators, 1, value.val)
             IN  IF checked.exc # "none" THEN checked ELSE value

\* bool(param.default): None and the empty string are false
DefaultIsTrue(param) == param.default # <<>> /\ param.default[1].s # ""

\* the two except clauses of require_params: ValidationError and any other
\* ValueError leave as HTTPInvalidParam with the message of the error, any
\* other exception passes
AsInvalidParam(r) ==
    IF r.exc \in {"ValidationError", "ValueError"}
    THEN Raise("HTTPInvalidParam", r.msg)
    ELSE r

\* what the request makes of an exception of transform: a ValueError is
\* raised as HTTPInvalidParam by the request itself, any other passes
AsFormatError(r) ==
    IF r.exc \in {"ValidationError", "ValueError"}
    THEN Raise("HTTPInvalidParam", StrV("The value is not formatted correctly."))
    ELSE r

\* [transform(i) for i in items]: the list of the results, or the first
\* exception raised
TransformAll(items) ==
    IF \A n \in DOMAIN items : items[n].exc = "none"
    THEN Ok(ListV([n \in DOMAIN items |-> items[n].val]))
    ELSE AsFormatError(items[CHOOSE n \in DOMAIN items :
                                /\ items[n].exc # "none"
                                /\ \A m \in 1 .. (n - 1) : items[m].exc = "none"])

\* req.get_param_as_list(name, transform): None when the name is absent,
\* else transform of every value given
get_param_as_list(req, name, param) ==
    IF name \notin DOMAIN req THEN Ok(NoneV)
    ELSE TransformAll([n \in DOMAIN req[name] |->
                         validated_value(param, req[name][n])])

\* param.default and param.validated_value(param.default)
DefaultAndValidated(param) ==
    IF ~DefaultIsTrue(param)
    THEN Ok(IF param.default = <<>> THEN NoneV ELSE param.default[1])
    ELSE AsInvalidParam(validated_value(param, param.default[1]))

\* [d]: the list of the one value d
ListOf(d) == IF d.exc # "none" THEN d ELSE Ok(ListV(<<d.val>>))

\* values + [param.default and ...]: the default is added to what was given
OrDefaultAdded(values, param) ==
    IF values.exc # "none" THEN values
    ELSE IF ~(values.val.t = "list" /\ values.val.l # <<>>)
    THEN ListOf(DefaultAndValidated(param))
    ELSE IF param.default = <<>> THEN values
    ELSE Ok(ListV(Append(values.val.l, param.default[1])))

\* values or [param.default and ...]: values when it is a list with items
OrDefault(values, param) ==
    IF values.exc # "none" \/ (values.val.t = "list" /\ values.val.l # <<>>)
    THEN values
    ELSE ListOf(DefaultAndValidated(param))

\* params[name] = param.container(values)
Contained(param, values) ==
    IF values.exc # "none" THEN values
    ELSE Ok(Container(param.container, values.val))

\* the body of the try block of require_params for a parameter with many:
\* get_param_as_list(...) or [default and validated_value(default)], given
\* to param.container (list)
DecodeMany(req, name, param) ==
    Contained(param, OrDefault(get_param_as_list(req, name, param), param))

\* the body of the try block for a parameter without many, `raw` being what
\* req.get_param(name, default=param.default) returned
DecodeSingle(param, raw) == AsInvalidParam(validated_value(param, raw))

\* what req.get_param(name, default) may return: the default when the name is
\* absent, else one of the values given (which one is unspecified when the
\* name occurs more than once)
get_param(req, name, default) ==
    IF name \in DOMAIN req THEN Range(req[name])
    ELSE {IF default = <<>> THEN NoneV ELSE default[1]}

\* a missing set that holds only the parameter the loop stopped at
MissingFirstFound(registry, req, name) == {name}

\* set(p for p in self.params if self.params[p].required)
\*     - set(req.params.keys())
Missing(registry, req, name) ==
    {registry[n].name : n \in {m \in DOMAIN registry : registry[m].required}}
        \ DOMAIN req

\* ", ".join(missing): the names in the order the set yields them, which is
\* any order
JoinOrders(names) ==
    {q \in [1 .. Cardinality(names) -> names] : Range(q) = names}

NoParamError == [names |-> <<>>, name |-> "", msg |-> NoneV]

(***************************************************************************)
(* The resource classes of the model.  Every resource inherits             *)
(* indent = IntParam(default='0') of BaseResource, which comes first in    *)
(* the registry.                                                           *)
(***************************************************************************)
IndentDecl == ParamDecl("indent", "IntParam", FALSE, <<StrV("0")>>, FALSE, <<>>)

ResourceBodies ==
    { \* test_required_params, with a second required parameter and a
      \* validated one between the two
      <<IndentDecl,
        ParamDecl("a", "StringParam", TRUE, <<>>, FALSE, <<>>),
        ParamDecl("n", "IntParam", FALSE, <<StrV("1")>>, FALSE,
                  <<max_validator(1)>>),
        ParamDecl("b", "IntParam", TRUE, <<>>, FALSE, <<>>)>>,
      \* test_default_parameters, with an empty default and a many parameter
      <<IndentDecl,
        ParamDecl("foo", "StringParam", FALSE, <<StrV("foo")>>, FALSE, <<>>),
        ParamDecl("bar", "StringParam", FALSE, <<>>, FALSE, <<>>),
        ParamDecl("e", "StringParam", FALSE, <<StrV("")>>, FALSE, <<>>),
        ParamDecl("m", "IntParam", FALSE, <<StrV("1")>>, TRUE, <<>>)>>,
      \* defaults that value() or a validator rejects
      <<IndentDecl,
        ParamDecl("k", "IntParam", FALSE, <<StrV("foo")>>, FALSE, <<>>),
        ParamDecl("v", "IntParam", FALSE, <<StrV("2")>>, FALSE,
                  <<max_validator(1)>>),
        ParamDecl("w", "IntParam", FALSE, <<StrV("2")>>, TRUE,
                  <<max_validator(1)>>)>>,
      \* test_parameter_with_many_and_custom_container_type_object and
      \* _method, and test_parameter_with_many_and_default
      <<IndentDecl,
        ParamDecl("foo", "StringSetParam", FALSE, <<>>, TRUE, <<>>),
        ParamDecl("baz", "StringSetMethodParam", FALSE, <<StrV("1")>>, TRUE,
                  <<>>),
        ParamDecl("num", "IntParam", FALSE, <<StrV("0")>>, TRUE,
                  <<max_validator(1)>>)>>,
      \* declarations that __init__ rejects
      <<IndentDecl,
        ParamDecl("t", "IntParam", FALSE, <<IntV(1)>>, FALSE, <<>>)>>,
      <<IndentDecl,
        ParamDecl("r", "StringParam", TRUE, <<StrV("1")>>, FALSE, <<>>)>> }

\* the raw values of a query string
RawTexts == {StrV("1"), StrV("2"), StrV("foo"), StrV("")}

\* what a query string may give for one parameter: nothing (<<>> here), one
\* value, or two values for a parameter with many
Given(param) ==
    {<<>>} \cup {<<x>> : x \in RawTexts \ (IF param.many THEN {StrV("")} ELSE {})}
        \cup (IF param.many
              THEN {<<StrV("1"), StrV("2")>>, <<StrV("2"), StrV("foo")>>,
                    <<StrV("2"), StrV("1")>>, <<StrV("1"), StrV("1")>>}
              ELSE {})

\* the requests of the model: req.params for every choice of what is given
\* for the first n parameters of the registry
RECURSIVE Requests(_, _)
Requests(registry, n) ==
    IF n = 0 THEN {<<>>}
    ELSE LET name == registry[n].name
         IN  UNION {{IF g = <<>> THEN req
                     ELSE [x \in DOMAIN req \cup {name} |->
                              IF x = name THEN g ELSE req[x]] :
                        g \in Given(registry[n])} :
                    req \in Requests(registry, n - 1)}

\* class Name(BaseResource): body -- the declarations are constructed in the
\* order they are written and the first that raises ends the class statement
DefineResource ==
    /\ param_pc = "define"
    /\ \E b \in ResourceBodies :
        LET made == [n \in DOMAIN b |-> BaseParamInit(b[n])]
            bad == {n \in DOMAIN made : made[n].exc # "none"}
            first == CHOOSE n \in bad : \A m \in bad : n <= m
        IN  IF bad = {}
            THEN /\ params' = [n \in DOMAIN made |-> made[n].param]
                 /\ param_pc' = "ready"
                 /\ param_outcome' = "none"
            ELSE /\ params' = <<>>
                 /\ param_pc' = "done"
                 /\ param_outcome' = made[first].exc
    /\ UNCHANGED <<req_params, param_idx, decoded, param_error, param_decl>>
    /\ UNCHANGED outsideParams

\* the declarations constructed on their own: every class, required or not,
\* without default and with a default that is a str, an int, a bool or a list
ParamDecls ==
    {ParamDecl("p", cls, required, default, many, <<>>) :
        cls \in {"StringParam", "IntParam"}, required \in BOOLEAN,
        many \in BOOLEAN,
        default \in {<<>>, <<StrV("")>>, <<StrV("1")>>, <<IntV(1)>>,
                     <<BoolV(FALSE)>>, <<ListV(<<StrV("1")>>)>>}}

\* param = cls(details, required=..., default=..., many=...)
ParamInit ==
    /\ param_pc = "define"
    /\ \E d \in ParamDecls :
        /\ param_decl' = d
        /\ param_outcome' = BaseParamInit(d).exc
        /\ params' = IF BaseParamInit(d).exc = "none"
                      THEN <<BaseParamInit(d).param>> ELSE <<>>
    /\ param_pc' = "made"
    /\ UNCHANGED <<req_params, param_idx, decoded, param_error>>
    /\ UNCHANGED outsideParams

\* resource.require_params(req) is called: params = {}
RequireParams ==
    /\ param_pc = "ready"
    /\ \E req \in Requests(params, Len(params)) : req_params' = req
    /\ param_idx' = 1
    /\ decoded' = <<>>
    /\ param_pc' = "decode"
    /\ UNCHANGED <<params, param_outcome, param_error, param_decl>>
    /\ UNCHANGED outsideParams

\* one pass of `for name, param in self.params.items()`
DecodeParam ==
    /\ param_pc = "decode"
    /\ param_idx <= Len(params)
    /\ LET param == params[param_idx]
           name == param.name
       IN  IF name \notin DOMAIN req_params /\ param.required
           THEN /\ \E joined \in JoinOrders(Missing(params, req_params, name)) :
                      param_error' = [NoParamError EXCEPT !.names = joined]
                /\ param_outcome' = "HTTPMissingParam"
                /\ param_pc' = "done"
                /\ UNCHANGED <<param_idx, decoded>>
           ELSE IF name \in DOMAIN req_params \/ DefaultIsTrue(param)
           THEN \E raw \in get_param(req_params, name, param.default) :
                  LET r == IF param.many THEN DecodeMany(req_params, name, param)
                           ELSE DecodeSingle(param, raw)
                  IN  IF r.exc = "none"
                      THEN /\ decoded' = DictPut(decoded, name, r.val)
                           /\ param_idx' = param_idx + 1
                           /\ UNCHANGED <<param_pc, param_outcome, param_error>>
                      ELSE /\ param_outcome' = r.exc
                           /\ param_error' =
                                 [NoParamError EXCEPT !.name = name, !.msg = r.msg]
                           /\ param_pc' = "done"
                           /\ UNCHANGED <<param_idx, decoded>>
           ELSE /\ param_idx' = param_idx + 1
                /\ UNCHANGED <<decoded, param_pc, param_outcome, param_error>>
    /\ UNCHANGED <<params, req_params, param_decl>>
    /\ UNCHANGED outsideParams

\* return params
ReturnParams ==
    /\ param_pc = "decode"
    /\ param_idx > Len(params)
    /\ param_outcome' = "returned"
    /\ param_pc' = "done"
    /\ UNCHANGED <<params, req_params, param_idx, decoded, param_error,
                   param_decl>>
    /\ UNCHANGED outsideParams

ParamNext ==
    \/ DefineResource
    \/ ParamInit
    \/ RequireParams
    \/ DecodeParam
    \/ ReturnParams

ParamSpec == Init /\ [][ParamNext]_vars

(***************************************************************************)
(* Interleaved calls.  One serializer and one resource are shared by       *)
(* MaxCalls calls in progress; a call is a frame that holds what the       *)
(* method keeps in local variables: op is the method, arg its input object *)
(* (the same object `given` to it at the start), pos the position of its   *)
(* loop, acc the dict it builds (representation, object_dict or params),   *)
(* failed the dict `failed` of from_representation, result how it ended    *)
(* ("running" while it has not).  One step of a call is one pass of its    *)
(* loop, or what follows the loop.                                         *)
(***************************************************************************)
CallIds == 1 .. MaxCalls

Running == [exc |-> "running", val |-> <<>>]

Ended(f, exc, val) == [f EXCEPT !.result = [exc |-> exc, val |-> val]]

\* acc[key] = value, and the loop moves on
Stored(f, key, value) ==
    [f EXCEPT !.acc = DictPut(f.acc, key, value), !.pos = f.pos + 1]

\* one pass of to_representation's loop
ToRepresentationPass(f, field, r) ==
    IF r.exc # "none" THEN Ended(f, r.exc, <<>>)
    ELSE Stored(f, field.name, r.val)

\* one pass of from_representation's loop
FromRepresentationPass(f, field, r) ==
    IF field.name \notin DOMAIN f.arg THEN [f EXCEPT !.pos = f.pos + 1]
    ELSE CASE r.exc = "none" -> Stored(f, _source(field.name, field), r.val)
           [] r.exc = "ValueError" ->
                [f EXCEPT !.failed = DictPut(f.failed, field.name, r.msg),
                          !.pos = f.pos + 1]
           [] OTHER -> Ended(f, r.exc, <<>>)

\* what leaves the `if failed:` block of from_representation
EagerEnd(f, v) ==
    IF v.exc \in {"none", "DeserializationError"}
    THEN Ended(f, "DeserializationError", ErrorOf(v, f.failed, TRUE))
    ELSE Ended(f, v.exc, <<>>)

\* what leaves validate(object_dict)
ValidateEnd(f, v) ==
    IF v.exc = "DeserializationError"
    THEN Ended(f, "DeserializationError", ErrorOf(v, <<>>, FALSE))
    ELSE Ended(f, v.exc, <<>>)

\* the try block of require_params for one parameter
DecodePass(f, param, r) ==
    IF r.exc # "none" THEN Ended(f, r.exc, param.name)
    ELSE Stored(f, param.name, r.val)

\* one pass of require_params's loop
RequireParamsPass(f, prms, param) ==
    IF param.name \notin DOMAIN f.arg /\ param.required
    THEN Ended(f, "HTTPMissingParam", Missing(prms, f.arg, param.name))
    ELSE IF param.name \in DOMAIN f.arg \/ DefaultIsTrue(param)
    THEN DecodePass(f, param,
            IF param.many THEN DecodeMany(f.arg, param.name, param)
            ELSE DecodeSingle(param,
                    CHOOSE raw \in get_param(f.arg, param.name, param.default) :
                        TRUE))
    ELSE [f EXCEPT !.pos = f.pos + 1]

\* the next step of the call in frame f, on the registries flds and prms
Step(f, flds, prms) ==
    CASE f.op = "to_representation" ->
            IF f.pos > Len(flds) THEN Ended(f, "none", f.acc)
            ELSE ToRepresentationPass(f, flds[f.pos],
                                      FieldEntry(flds[f.pos], f.arg))
      [] f.op = "from_representation" ->
            IF f.pos <= Len(flds)
            THEN FromRepresentationPass(f, flds[f.pos],
                    IF flds[f.pos].name \in DOMAIN f.arg
                    THEN FieldFromRepresentation(flds[f.pos],
                                                 f.arg[flds[f.pos].name])
                    ELSE Ok(NoneV))
            ELSE IF AfterLoop(f.failed) = "validate"
            THEN EagerEnd(f, Validate(flds, f.acc, FALSE))
            ELSE Ended(f, "none", f.acc)
      [] f.op = "validate" -> ValidateEnd(f, Validate(flds, f.arg, FALSE))
      [] f.op = "require_params" ->
            IF f.pos > Len(prms) THEN Ended(f, "none", f.acc)
            ELSE RequireParamsPass(f, prms, prms[f.pos])

\* the call of frame f run to its end with no other call in between
RECURSIVE Alone(_, _, _)
Alone(f, flds, prms) ==
    IF f.result.exc # "running" THEN f.result
    ELSE Alone(Step(f, flds, prms), flds, prms)

\* the dict a method starts with (`representation = {}`, `object_dict = {}`,
\* `params = {}`) kept on the serializer, where the calls in progress share it
SharedDict(frms, c) ==
    IF \E o \in DOMAIN frms : o # c /\ frms[o].result.exc = "running"
    THEN frms[CHOOSE o \in DOMAIN frms :
                 o # c /\ frms[o].result.exc = "running"].acc
    ELSE <<>>

\* the dict a method starts with: a new, empty dict of its own
FreshDict(frms, c) == <<>>

\* the registry of the shared serializer (update, with a many field added)
\* and of the shared resource
SharedSerializer ==
    Append(UpdateSerializer,
           Decl("tags", "StringField", "", <<>>, TRUE, FALSE, <<>>, <<>>, {}))

SharedResource ==
    <<IndentDecl,
      ParamDecl("a", "StringParam", TRUE, <<>>, FALSE, <<>>),
      ParamDecl("n", "IntParam", FALSE, <<StrV("1")>>, FALSE,
                <<max_validator(1)>>)>>

\* the inputs of the calls: every set of keys, all with one value
SameValued(keys, values) ==
    {[k \in ks |-> v] : ks \in SUBSET keys, v \in values}

CallInputs(op, flds, prms) ==
    CASE op = "from_representation" ->
            SameValued(FieldNames(flds), {IntV(1), StrV("foo")})
      [] op \in {"to_representation", "validate"} ->
            {SelectSeq([n \in DOMAIN flds |->
                          [k |-> _source(flds[n].name, flds[n]), v |-> v]],
                       LAMBDA e : e.k \in ks) :
                ks \in SUBSET {_source(flds[n].name, flds[n]) : n \in DOMAIN flds},
                v \in {IntV(1), StrV("foo")}}
      [] op = "require_params" ->
            {[k \in DOMAIN q |-> <<q[k]>>] :
                q \in SameValued({prms[n].name : n \in DOMAIN prms},
                                 {StrV("1"), StrV("2"), StrV("foo")})}

\* the serializer class and the resource class are defined
DefineShared ==
    /\ shared_pc = "define"
    /\ shared_fields' = [n \in DOMAIN SharedSerializer |->
                            Construct(SharedSerializer[n]).field]
    /\ shared_params' = [n \in DOMAIN SharedResource |->
                            BaseParamInit(SharedResource[n]).param]
    /\ shared_pc' = "serving"
    /\ UNCHANGED frames
    /\ UNCHANGED outsideShared

\* a request handler calls one of the methods
StartCall(c) ==
    /\ shared_pc = "serving"
    /\ frames[c].op = "none"
    /\ \E op \in {"to_representation", "from_representation", "validate",
                  "require_params"} :
        \E input \in CallInputs(op, shared_fields, shared_params) :
            frames' = [frames EXCEPT ![c] =
                          [op |-> op, arg |-> input, given |-> input, pos |-> 1,
                           acc |-> FreshDict(frames, c), failed |-> <<>>,
                           result |-> Running]]
    /\ UNCHANGED <<shared_pc, shared_fields, shared_params>>
    /\ UNCHANGED outsideShared

\* the call in frame c takes its next step
Advance(c) ==
    /\ frames[c].result.exc = "running"
    /\ frames' = [frames EXCEPT ![c] = Step(frames[c], shared_fields,
                                            shared_params)]
    /\ UNCHANGED <<shared_pc, shared_fields, shared_params>>
    /\ UNCHANGED outsideShared

ReentryNext ==
    \/ DefineShared
    \/ \E c \in CallIds : StartCall(c)
    \/ \E c \in CallIds : Advance(c)

ReentrySpec == Init /\ [][ReentryNext]_vars

(***************************************************************************)
(* Self-description (BaseField.describe, BaseSerializer.describe).  A      *)
(* documented field is a field object together with the attributes label   *)
(* and details, which the other specifications leave out.                  *)
(***************************************************************************)
\* the labels (None when no label is passed) and the details of the model
DocLabels == {NoneV, StrV("foo")}

DocDetails == {"bar", "\n    bar\n    "}

\* inspect.cleandoc(text): the blank lines at both ends and the common
\* indentation are removed
cleandoc(text) ==
    CASE text = "\n    bar\n    " -> "bar"
      [] OTHER -> text

\* description.update(kwargs), item n onwards
RECURSIVE DictUpdate(_, _, _)
DictUpdate(description, kwargs, n) ==
    IF n > Len(kwargs) THEN description
    ELSE DictUpdate(DictPut(description, kwargs[n].k, kwargs[n].v), kwargs, n + 1)

\* a describe that never writes "list of"
describePlain(documented, kwargs) ==
    DictUpdate(
        <<[k |-> "label", v |-> documented.label],
          [k |-> "details", v |-> StrV(cleandoc(documented.details))],
          [k |-> "type", v |-> StrV(documented.field.type)],
          [k |-> "spec", v |-> NoneV],
          [k |-> "read_only", v |-> BoolV(documented.field.read_only)]>>,
        kwargs, 1)

\* BaseField.describe(**kwargs); spec is None in every field class
describe(documented, kwargs) ==
    DictUpdate(
        <<[k |-> "label", v |-> documented.label],
          [k |-> "details", v |-> StrV(cleandoc(documented.details))],
          [k |-> "type",
           v |-> StrV(IF documented.field.many
                      THEN "list of " \o documented.field.type
                      ELSE documented.field.type)],
          [k |-> "spec", v |-> NoneV],
          [k |-> "read_only", v |-> BoolV(documented.field.read_only)]>>,
        kwargs, 1)

\* BaseSerializer.describe(): OrderedDict of (name, field.describe())
SerializerDescribe(flds) ==
    [n \in DOMAIN flds |->
        [k |-> flds[n].field.name, v |-> DictV(describe(flds[n], <<>>))]]

\* the keyword items a caller of field.describe passes
DescribeKwargs ==
    {<<>>,
     <<[k |-> "baz", v |-> StrV("baz")]>>,
     <<[k |-> "is_dummy", v |-> BoolV(TRUE)], [k |-> "type", v |-> StrV("x")]>>}

\* a serializer class is defined, every field with a label and details
DefineDocumented ==
    /\ doc_pc = "define"
    /\ \E b \in {x \in ClassBodies \cup {SharedSerializer} :
                   \A n \in DOMAIN x : Construct(x[n]).exc = "none"} :
        \E labels \in [DOMAIN b -> DocLabels], details \in [DOMAIN b -> DocDetails] :
            doc_fields' = [n \in DOMAIN b |->
                              [field |-> Construct(b[n]).field,
                               label |-> labels[n], details |-> details[n]]]
    /\ doc_pc' = "ready"
    /\ UNCHANGED <<doc_call, doc_output>>
    /\ UNCHANGED outsideDoc

\* serializer.describe()
DescribeSerializer ==
    /\ doc_pc = "ready"
    /\ doc_call' = [method |-> "BaseSerializer.describe", index |-> 0,
                    kwargs |-> <<>>]
    /\ doc_output' = SerializerDescribe(doc_fields)
    /\ doc_pc' = "done"
    /\ UNCHANGED doc_fields
    /\ UNCHANGED outsideDoc

\* serializer.fields[name].describe(**kwargs)
DescribeField ==
    /\ doc_pc = "ready"
    /\ \E n \in DOMAIN doc_fields, kwargs \in DescribeKwargs :
        /\ doc_call' = [method |-> "BaseField.describe", index |-> n,
                        kwargs |-> kwargs]
        /\ doc_output' = describe(doc_fields[n], kwargs)
    /\ doc_pc' = "done"
    /\ UNCHANGED doc_fields
    /\ UNCHANGED outsideDoc

DocNext ==
    \/ DefineDocumented
    \/ DescribeSerializer
    \/ DescribeField

DocSpec == Init /\ [][DocNext]_vars

(***************************************************************************)
(* The serializer-backed resources (graceful.resources.generic): a PUT,    *)
(* POST or PATCH request goes through require_validated and then through   *)
(* handle, which calls the user's update / create / create_bulk handler.   *)
(* The handlers of the model store what they are given, as the resources   *)
(* of tests/test_generic.py do.                                            *)
(***************************************************************************)
\* the serializer of the resource
ResourceFields ==
    [n \in DOMAIN UpdateSerializer |-> Construct(UpdateSerializer[n]).field]

\* the representations a request body holds: a complete one, and others
\* that omit a field, fail a validator, fail to parse, set the read-only
\* field, hold an unknown key or hold null
ItemRepresentations ==
    {[writable |-> StrV("foo"), unsigned |-> IntV(1)],
     [writable |-> StrV("foo")],
     [writable |-> StrV("foo"), unsigned |-> IntV(-1)],
     [writable |-> StrV("foo"), unsigned |-> StrV("foo")],
     [writable |-> StrV("foo"), unsigned |-> IntV(1), readonly |-> IntV(1)],
     [writable |-> StrV("foo"), unsigned |-> IntV(1), bogus |-> IntV(1)],
     [writable |-> StrV("foo"), unsigned |-> NoneV]}

\* the lists of up to n representations
RECURSIVE ItemLists(_)
ItemLists(n) ==
    IF n = 0 THEN {<<>>}
    ELSE ItemLists(n - 1)
            \cup {Append(q, x) : q \in ItemLists(n - 1), x \in ItemRepresentations}

\* the decoded bodies: a JSON object, or a JSON array of objects
RequestBodies ==
    {[list |-> FALSE, items |-> <<x>>] : x \in ItemRepresentations}
        \cup {[list |-> TRUE, items |-> q] : q \in ItemLists(MaxItems)}

\* serializer.from_representation(representation), the whole call
from_representation(flds, rep) ==
    Alone([op |-> "from_representation", arg |-> rep, given |-> rep, pos |-> 1,
           acc |-> <<>>, failed |-> <<>>, result |-> Running], flds, <<>>)

\* what the except clauses of require_validated make of an exception
as_bad_request(exc) ==
    IF exc \in {"DeserializationError", "ValidationError"} THEN "HTTPBadRequest"
    ELSE exc

\* one pass of the loop of require_validated: from_representation, then
\* validate; the object_dict, or the exception that leaves the call
ValidatedItem(flds, rep, part) ==
    IF from_representation(flds, rep).exc # "none"
    THEN [exc |-> as_bad_request(from_representation(flds, rep).exc),
          object_dict |-> <<>>]
    ELSE [exc |-> as_bad_request(
                      Validate(flds, from_representation(flds, rep).val, part).exc),
          object_dict |-> from_representation(flds, rep).val]

\* on_put, on_post or on_patch is called: require_validated(req, bulk) reads
\* the body; bulk with a body that is no list is a bad request
ReceiveRequest ==
    /\ http_pc = "ready"
    /\ \E method \in {"PUT", "POST", "PATCH"}, b \in RequestBodies :
        /\ method # "PATCH" => ~b.list
        /\ http_request' = [method |-> method, body |-> b]
        /\ IF method = "PATCH" /\ ~b.list
           THEN http_pc' = "done" /\ http_status' = "HTTPBadRequest"
           ELSE http_pc' = "validate" /\ http_status' = "none"
    /\ http_pos' = 1
    /\ object_dicts' = <<>>
    /\ UNCHANGED <<handler_calls, storage>>
    /\ UNCHANGED outsideRequest

\* one pass of `for representation in representations`
ValidateRepresentation ==
    /\ http_pc = "validate"
    /\ http_pos <= Len(http_request.body.items)
    /\ IF ValidatedItem(ResourceFields, http_request.body.items[http_pos],
                        FALSE).exc = "none"
       THEN /\ object_dicts' =
                 Append(object_dicts,
                        ValidatedItem(ResourceFields,
                                      http_request.body.items[http_pos],
                                      FALSE).object_dict)
            /\ http_pos' = http_pos + 1
            /\ UNCHANGED <<http_pc, http_status>>
       ELSE /\ http_status' =
                 ValidatedItem(ResourceFields, http_request.body.items[http_pos],
                               FALSE).exc
            /\ http_pc' = "done"
            /\ UNCHANGED <<object_dicts, http_pos>>
    /\ UNCHANGED <<http_request, handler_calls, storage>>
    /\ UNCHANGED outsideRequest

\* require_validated returned: handle() calls the handler with validated=...
\* (update or create with the one object, create_bulk with the list, which
\* calls create for every item), and the handler stores what it is given
Handle ==
    /\ http_pc = "validate"
    /\ http_pos > Len(http_request.body.items)
    /\ handler_calls' =
          CASE http_request.method = "PUT" ->
                  <<[handler |-> "update", validated |-> object_dicts[1]]>>
            [] http_request.method = "POST" ->
                  <<[handler |-> "create", validated |-> object_dicts[1]]>>
            [] http_request.method = "PATCH" ->
                  <<[handler |-> "create_bulk", validated |-> object_dicts]>>
                    \o [n \in DOMAIN object_dicts |->
                          [handler |-> "create", validated |-> object_dicts[n]]]
    /\ storage' = storage \o object_dicts
    /\ http_status' = IF http_request.method = "PUT" THEN "200 OK"
                      ELSE "201 Created"
    /\ http_pc' = "done"
    /\ UNCHANGED <<http_request, http_pos, object_dicts>>
    /\ UNCHANGED outsideRequest

RequestNext ==
    \/ ReceiveRequest
    \/ ValidateRepresentation
    \/ Handle

RequestSpec == Init /\ [][RequestNext]_vars

Next ==
    \/ DefineSerializer
    \/ RequireValidated
    \/ CoerceField
    \/ EagerValidate
    \/ ReturnObjectDict
    \/ ValidateObjectDict
    \/ ToRepresentation
    \/ RoundTrip

Spec == Init /\ [][Next]_vars

(***************************************************************************)
(* What the specification says of one payload, stated on the declared      *)
(* fields and the payload alone.                                           *)
(***************************************************************************)
FieldByName(flds, name) == flds[CHOOSE n \in DOMAIN flds : flds[n].name = name]

\* the declared names the payload holds
Present(flds, rep) == FieldNames(flds) \cap DOMAIN rep

\* required names the payload omits: declared, not read-only, not a key
OmittedRequired(flds, rep) ==
    {name \in FieldNames(flds) \ DOMAIN rep : ~FieldByName(flds, name).read_only}

\* keys of the payload that are unknown to the registry or read-only
ForbiddenKeys(flds, rep) ==
    {key \in DOMAIN rep :
        \/ key \notin FieldNames(flds)
        \/ FieldByName(flds, key).read_only}

\* the result of the field's coercion of the payload's entry
Coerced(flds, rep, name) ==
    FieldFromRepresentation(FieldByName(flds, name), rep[name])

\* declared names whose entry cannot be parsed as the field's type
Unparseable(flds, rep) ==
    {name \in Present(flds, rep) : Coerced(flds, rep, name).exc # "none"}

\* the validators of a field that reject a value, by position in the list
Rejecting(field, value) ==
    {n \in DOMAIN field.validators :
        CallValidator(field.validators[n], value).exc = "ValidationError"}

\* declared names whose coerced value is rejected by one of the validators
InvalidNames(flds, rep) ==
    {name \in Present(flds, rep) \ Unparseable(flds, rep) :
        Rejecting(FieldByName(flds, name), Coerced(flds, rep, name).val) # {}}

\* the message of the first validator in list order that rejects the value
FirstMessage(field, value) ==
    LET first == CHOOSE n \in Rejecting(field, value) :
                    \A m \in Rejecting(field, value) : n <= m
    IN  CallValidator(field.validators[first], value).msg

\* a call of require_validated has ended
CallEnded == pc = "done" /\ call = "require_validated"

\* the same, on a serializer whose fields are all single-valued
ScalarCallEnded == CallEnded /\ \A n \in DOMAIN fields : ~fields[n].many

(***************************************************************************)
(* C1.  A payload that at once omits a required field, holds a forbidden   *)
(* key (unknown or read-only) and holds a value that a validator rejects   *)
(* ends, with partial=False, in exactly one DeserializationError whose     *)
(* missing, forbidden and invalid are all non-empty and hold exactly the   *)
(* expected names.                                                         *)
(***************************************************************************)
C1_AllThreeReported ==
    ( /\ ScalarCallEnded
      /\ ~partial
      /\ OmittedRequired(fields, representation) # {}
      /\ ForbiddenKeys(fields, representation) # {}
      /\ InvalidNames(fields, representation) # {}
      /\ Unparseable(fields, representation) = {} )
    => /\ outcome = "DeserializationError"
       /\ Len(validate_calls) = 1
       /\ Range(err.missing) = OmittedRequired(fields, representation)
       /\ Range(err.forbidden) = ForbiddenKeys(fields, representation)
       /\ DictKeys(err.invalid) = InvalidNames(fields, representation)

(***************************************************************************)
(* C2.  The forbidden collection of the error is exactly the set of keys   *)
(* of the payload that are unknown to the registry or read-only, and a     *)
(* payload with such a key is rejected: no internal object is returned.    *)
(***************************************************************************)
C2_ForbiddenExact ==
    ScalarCallEnded
    => /\ ForbiddenKeys(fields, representation) # {} => outcome # "returned"
       /\ outcome = "DeserializationError"
            => Range(err.forbidden) = ForbiddenKeys(fields, representation)

(***************************************************************************)
(* C3.  With partial=False the missing collection of the error is exactly  *)
(* the set of declared, non-read-only names that are no key of the         *)
(* payload, also when values fail coercion or validation.                  *)
(***************************************************************************)
C3_MissingExact ==
    (ScalarCallEnded /\ ~partial /\ outcome = "DeserializationError")
    => Range(err.missing) = OmittedRequired(fields, representation)

\* unparseable entries of fields that are not read-only
UnparseableWritable(flds, rep) ==
    {name \in Unparseable(flds, rep) : ~FieldByName(flds, name).read_only}

(***************************************************************************)
(* C4.  The failed collection maps exactly the declared, writable names    *)
(* of the payload whose raw value cannot be parsed as the field's type;    *)
(* every such value ends in the aggregated DeserializationError and never  *)
(* in another kind of exception.                                           *)
(***************************************************************************)
C4_FailedExact ==
    ScalarCallEnded
    => /\ UnparseableWritable(fields, representation) # {}
            => outcome = "DeserializationError"
       /\ outcome = "DeserializationError"
            => DictKeys(err.failed) = UnparseableWritable(fields, representation)

(***************************************************************************)
(* C6.  With partial=True a required field the payload omits is never      *)
(* reported in missing, whatever else is wrong with the payload, and with  *)
(* nothing else wrong the call succeeds.                                   *)
(***************************************************************************)
C6_PartialNeverMissing ==
    (ScalarCallEnded /\ partial)
    => /\ outcome = "DeserializationError"
            => Range(err.missing) \cap OmittedRequired(fields, representation) = {}
       /\ ( /\ ForbiddenKeys(fields, representation) = {}
            /\ Unparseable(fields, representation) = {}
            /\ InvalidNames(fields, representation) = {} )
            => outcome = "returned"

\* from_representation's loop has run to its end
LoopEnded ==
    /\ call = "require_validated"
    /\ idx > Len(fields)

\* every item of a list is coerced by the field
ItemsCoerce(field, items) ==
    \A n \in DOMAIN items : FieldFromRepresentation(field, items[n]).exc = "none"

(***************************************************************************)
(* C9.  For a many=True field from_representation signals a coercion      *)
(* failure when the raw entry is no sequence; a sequence is coerced item   *)
(* by item into a sequence of the same length and order.                   *)
(***************************************************************************)
C9_ManyItemwise ==
    LoopEnded
    => \A name \in Present(fields, representation) :
          LET field == FieldByName(fields, name)
              raw == representation[name]
          IN  field.many
              => /\ raw.t # "list" => DictHas(failed, name)
                 /\ (raw.t = "list" /\ ItemsCoerce(field, raw.l))
                      => /\ DictHas(object_dict, _source(name, field))
                         /\ DictGet(object_dict, _source(name, field))
                              = ListV([n \in DOMAIN raw.l |->
                                    FieldFromRepresentation(field, raw.l[n]).val])

\* the names the class body declares with write_only=True
DeclaresWriteOnly ==
    {body[n].name : n \in {m \in DOMAIN body : "write_only" \in body[m].kwargs}}

(***************************************************************************)
(* C10.  A field declared write_only=True is a field of the serializer     *)
(* that never appears in the output of to_representation; a field declared *)
(* read_only=True appears in the output, and from_representation raises    *)
(* DeserializationError for every payload that holds it.                   *)
(***************************************************************************)
C10_ReadWriteOnlyAsymmetry ==
    /\ DeclaresWriteOnly # {} => outcome # "TypeError"
    /\ (call = "to_representation" /\ outcome = "represented")
         => /\ DeclaresWriteOnly \cap DictKeys(output) = {}
            /\ \A n \in DOMAIN fields :
                   fields[n].read_only => DictHas(output, fields[n].name)
    /\ pc = "returned"
         => \A name \in Present(fields, representation) :
               ~FieldByName(fields, name).read_only

\* invalid as the claim words it: name -> message of the first rejection
ExpectedInvalid(flds, rep) ==
    [name \in InvalidNames(flds, rep) |->
        FirstMessage(FieldByName(flds, name), Coerced(flds, rep, name).val)]

(***************************************************************************)
(* C5.  When every present value coerces, invalid maps exactly the names   *)
(* whose coerced value is rejected by at least one validator of the field, *)
(* each to the message of the first rejecting validator in list order; a   *)
(* value every validator accepts never appears in invalid.                 *)
(***************************************************************************)
C5_InvalidExact ==
    (CallEnded /\ Unparseable(fields, representation) = {})
    => /\ outcome \in {"returned", "DeserializationError"}
       /\ InvalidNames(fields, representation) # {}
            => outcome = "DeserializationError"
       /\ outcome = "DeserializationError"
            => DictItems(err.invalid) = ExpectedInvalid(fields, representation)

\* a value that two validators reject is reported, beside a value that passes
C5_Witness ==
    /\ CallEnded
    /\ Unparseable(fields, representation) = {}
    /\ outcome = "DeserializationError"
    /\ \E name \in InvalidNames(fields, representation) :
          /\ Cardinality(Rejecting(FieldByName(fields, name),
                                   Coerced(fields, representation, name).val)) = 2
          /\ DictHas(err.invalid, name)
    /\ Present(fields, representation) \ InvalidNames(fields, representation) # {}

SourceName(field) ==
    IF field.source \in {"", "*"} THEN field.name ELSE field.source

ValidPayload(flds, rep) ==
    /\ ForbiddenKeys(flds, rep) = {}
    /\ OmittedRequired(flds, rep) = {}
    /\ Unparseable(flds, rep) = {}
    /\ InvalidNames(flds, rep) = {}

(***************************************************************************)
(* C8.  A payload that holds only declared writable fields, holds every    *)
(* required field, and whose values all coerce and pass the validators is  *)
(* deserialized without an error into an internal object whose keys are    *)
(* exactly the source names of the present fields (the field's name when   *)
(* source is unset or '*'), each mapped to the coerced value.              *)
(***************************************************************************)
C8_ValidPayloadReturned ==
    (CallEnded /\ ValidPayload(fields, representation))
    => /\ outcome = "returned"
       /\ {<<object_dict[n].k, object_dict[n].v>> : n \in DOMAIN object_dict}
            = {<<SourceName(FieldByName(fields, name)),
                 Coerced(fields, representation, name).val>> :
                    name \in Present(fields, representation)}
       /\ Len(object_dict) = Cardinality(Present(fields, representation))

\* a valid payload with a field of an explicit source and one of source '*'
C8_Witness ==
    /\ CallEnded
    /\ ValidPayload(fields, representation)
    /\ outcome = "returned"
    /\ \E a, b \in Present(fields, representation) :
          /\ FieldByName(fields, a).source = "*"
          /\ FieldByName(fields, b).source \notin {"", "*"}
          /\ Coerced(fields, representation, b).val # representation[b]

(***************************************************************************)
(* to_representation, stated on the declared fields and the instance.      *)
(***************************************************************************)
\* a call of to_representation has ended
RepresentationEnded == pc = "done" /\ call = "to_representation"

\* what the instance holds for a field: the whole instance for source '*',
\* the value under the source key (the name when source is unset), None
\* when the key is absent
Held(field, obj) ==
    LET key == IF field.source # "" THEN field.source ELSE field.name
    IN  IF key = "*" THEN DictV(obj)
        ELSE IF \E n \in DOMAIN obj : obj[n].k = key
        THEN obj[CHOOSE n \in DOMAIN obj : obj[n].k = key].v
        ELSE NoneV

\* the fields that hold nothing: the key is absent or maps to None
Absent(flds, obj) == {n \in DOMAIN flds : Held(flds[n], obj) = NoneV}

\* the entry the claim expects for a field that holds a value
ExpectedEntry(field, obj) ==
    LET held == Held(field, obj)
    IN  IF field.many
        THEN ListV([n \in DOMAIN held.l |->
                       FieldToRepresentation(field, held.l[n]).val])
        ELSE FieldToRepresentation(field, held).val

\* every value held converts: a many field holds a list of convertible items
Convertible(field, obj) ==
    LET held == Held(field, obj)
    IN  IF field.many
        THEN /\ held.t = "list"
             /\ \A n \in DOMAIN held.l :
                    FieldToRepresentation(field, held.l[n]).exc = "none"
        ELSE FieldToRepresentation(field, held).exc = "none"

(***************************************************************************)
(* C11.  to_representation(instance) returns a mapping whose keys are      *)
(* exactly the declared field names; a field whose source is absent from   *)
(* the instance or holds None gets [] when it is many and None otherwise,  *)
(* and its converter is not called (the call returns even where the        *)
(* converter would raise on None); a many field that holds a list gets the *)
(* list of its items converted one by one, in order and of equal length.   *)
(***************************************************************************)
C11_RepresentationShape ==
    RepresentationEnded
    => /\ (\A n \in DOMAIN fields \ Absent(fields, instance) :
              Convertible(fields[n], instance))
            => outcome = "represented"
       /\ outcome = "represented"
            => /\ DictKeyList(output) = [n \in DOMAIN fields |-> fields[n].name]
               /\ \A n \in Absent(fields, instance) :
                     output[n].v = IF fields[n].many THEN ListV(<<>>) ELSE NoneV
               /\ \A n \in DOMAIN fields \ Absent(fields, instance) :
                     Convertible(fields[n], instance)
                        => output[n].v = ExpectedEntry(fields[n], instance)

\* an instance with a key no field reads, an integer field that holds None,
\* a many field that holds nothing and a many field that holds two items
C11_Witness ==
    /\ RepresentationEnded
    /\ outcome = "represented"
    /\ DictHas(instance, "gender")
    /\ ~DictHas(output, "gender")
    /\ \E a, b \in DOMAIN fields :
          /\ fields[a].many /\ a \in Absent(fields, instance)
          /\ fields[b].many /\ Len(output[b].v.l) = 2
    /\ \E n \in Absent(fields, instance) :
          FieldToRepresentation(fields[n], NoneV).exc # "none"

(***************************************************************************)
(* The round trip through a serializer.                                    *)
(***************************************************************************)
\* from_representation(to_representation(instance)) has ended
RoundTripEnded ==
    /\ call = "round_trip"
    /\ pc \in {"returned", "done"}

\* a value of the internal type of a field class
TypedItem(field, value) ==
    CASE field.type = "raw" -> value # NoneV
      [] field.type = "string" -> value.t = "str"
      [] field.type = "int" -> value.t = "int"
      [] field.type = "float" -> value.t = "float"
      [] field.type = "bool" -> value.t = "bool"

\* a value a field holds: one item, or for a many field a list of items
Typed(field, value) ==
    IF field.many
    THEN value.t = "list" /\ \A n \in DOMAIN value.l : TypedItem(field, value.l[n])
    ELSE TypedItem(field, value)

\* the instance holds a value of the field's type under each field's source
\* and nothing else (no field reads the whole instance through source '*')
FullInstance(flds, obj) ==
    /\ \A n \in DOMAIN flds : flds[n].source # "*"
    /\ DictKeys(obj) = {SourceName(flds[n]) : n \in DOMAIN flds}
    /\ \A n \in DOMAIN flds : Typed(flds[n], DictGet(obj, SourceName(flds[n])))

(***************************************************************************)
(* C12.  Serializer round trip: for an internal object that holds a value  *)
(* of the field's type under each field's source and nothing else,         *)
(* from_representation(to_representation(obj)) returns an object equal to  *)
(* obj; a many field's sequence comes back equal, in the same order.       *)
(***************************************************************************)
C12_SerializerRoundTrip ==
    (RoundTripEnded /\ FullInstance(fields, instance))
    => /\ pc = "returned"
       /\ DictItems(object_dict) = DictItems(instance)

(***************************************************************************)
(* C13.  Field round-trip law: for each built-in field type (raw, string,  *)
(* boolean with the default or with given representations, integer,        *)
(* float) and every internal value v of that type, to_representation(v)    *)
(* returns and from_representation of what it returned is v again; and     *)
(* to_representation returns for every value from_representation produced.*)
(***************************************************************************)
C13_FieldRoundTrip ==
    /\ (field_call = "to_representation" /\ TypedItem(field_obj, field_arg))
          => field_result.exc = "none"
    /\ (field_call = "from(to)" /\ TypedItem(field_obj, field_arg))
          => field_result = Ok(field_arg)
    /\ field_call = "to(from)" => field_result.exc = "none"

\* True went out as the given token 'yes' and came back as True
C13_Witness ==
    /\ field_call = "from(to)"
    /\ field_obj.type = "bool"
    /\ field_arg = BoolV(TRUE)
    /\ field_mid = Ok(StrV("yes"))
    /\ field_result = Ok(BoolV(TRUE))

(***************************************************************************)
(* Registries, stated on the class statements as written.                  *)
(***************************************************************************)
\* the class of the declarations the metaclass collects
DeclarationClass == IF metaclass = "MetaSerializer" THEN "BaseField" ELSE "BaseParam"

\* the declarations a class statement wrote in its body, in order
OwnDeclarations(c) == Declared(classes[c].body, DeclarationClass)

OwnNames(c) == DictKeyList(OwnDeclarations(c))

\* the method resolution order of a class, the class first
Mro(c) == <<c>> \o MroOf(classes, classes[c].bases)

Reverse(q) == [n \in DOMAIN q |-> q[Len(q) + 1 - n]]

\* the own declarations of the classes of a list, one class after the other
RECURSIVE DeclarationsOf(_, _)
DeclarationsOf(order, n) ==
    IF n = 0 THEN <<>>
    ELSE DeclarationsOf(order, n - 1) \o OwnDeclarations(order[n])

(***************************************************************************)
(* C14.  Registry order and override with one base: the registry of a      *)
(* class with a single base lists the names of the base's registry in the  *)
(* base's order, then the names the class newly declares in body order; a  *)
(* redeclared name keeps its position and maps to the class's own          *)
(* declaration, the other names map to the base's declarations, and every  *)
(* name has exactly one entry.  The same for fields and for parameters.    *)
(***************************************************************************)
C14_SingleBaseRegistry ==
    \A c \in DOMAIN classes :
        Len(classes[c].bases) = 1
        => LET base == classes[classes[c].bases[1]].registry
               registry == classes[c].registry
               IsNew(name) == ~DictHas(base, name)
           IN  /\ DictKeyList(registry)
                    = DictKeyList(base) \o SelectSeq(OwnNames(c), IsNew)
               /\ Cardinality(DictKeys(registry)) = Len(registry)
               /\ \A name \in DictKeys(registry) :
                     DictGet(registry, name)
                        = IF DictHas(OwnDeclarations(c), name)
                          THEN DictGet(OwnDeclarations(c), name)
                          ELSE DictGet(base, name)

\* a base that declares a, b and a class on it that declares c and
\* redeclares b
C14_Witness ==
    \E c \in DOMAIN classes :
        /\ Len(classes[c].bases) = 1
        /\ OwnNames(classes[c].bases[1]) = <<"a", "b">>
        /\ OwnNames(c) = <<"c", "b">>
        /\ DictKeyList(classes[c].registry)
              = DictKeyList(classes[1].registry) \o <<"a", "b", "c">>
        /\ DictGet(classes[c].registry, "b").owner = c
        /\ DictGet(classes[c].registry, "a").owner = classes[c].bases[1]

(***************************************************************************)
(* C15.  Registry merge with several bases: the registry of a class is the *)
(* merge of the declarations of the classes of its MRO taken in reverse    *)
(* MRO order (most-base first): a name declared by several classes maps to *)
(* the declaration of the class that comes earliest in the MRO, at the     *)
(* position given by the most-base class that declared it.                 *)
(***************************************************************************)
C15_ReverseMroMerge ==
    \A c \in DOMAIN classes :
        LET order == Reverse(Mro(c))
            all == DeclarationsOf(order, Len(order))
        IN  classes[c].registry = OrderedDict(all, Len(all))

(***************************************************************************)
(* C16.  After a class is created every declaration written in its body is *)
(* held in the registry and is no attribute of the class's namespace,      *)
(* every other attribute of the body is in the namespace unchanged, and a  *)
(* class with no own and no inherited declarations has an empty registry.  *)
(***************************************************************************)
C16_DeclarationsMoved ==
    \A c \in DOMAIN classes :
        LET own == OwnDeclarations(c)
            written == classes[c].body
        IN  /\ \A n \in DOMAIN own :
                  /\ DictHas(classes[c].registry, own[n].k)
                  /\ DictGet(classes[c].registry, own[n].k) = own[n].v
                  /\ ~DictHas(classes[c].namespace, own[n].k)
            /\ \A n \in DOMAIN written :
                  written[n].v.cls # DeclarationClass
                  => /\ DictHas(classes[c].namespace, written[n].k)
                     /\ DictGet(classes[c].namespace, written[n].k) = written[n].v
            /\ DictKeys(classes[c].namespace) \subseteq DictKeys(written)
            /\ (\A k \in Range(Mro(c)) : OwnDeclarations(k) = <<>>)
                  => classes[c].registry = <<>>

\* a class whose body holds a declaration and another attribute, and a class
\* with an empty body on a base with an empty registry
C16_Witness ==
    \E c \in DOMAIN classes :
        /\ OwnNames(c) = <<"a">>
        /\ DictKeyList(classes[c].namespace) = <<"helper">>
        /\ \E k \in DOMAIN classes :
              /\ k # 1
              /\ classes[k].body = <<>>
              /\ classes[k].registry = <<>>

(***************************************************************************)
(* BoolField, stated on the documented tokens.                             *)
(***************************************************************************)
\* the tokens the documentation lists for False and for True
DocumentedFalse ==
    {StrV("False"), StrV("false"), StrV("FALSE"), StrV("F"), StrV("f"),
     StrV("0"), IntV(0), FloatV(0), BoolV(FALSE)}

DocumentedTrue ==
    {StrV("True"), StrV("true"), StrV("TRUE"), StrV("T"), StrV("t"), StrV("1"),
     IntV(1), BoolV(TRUE)}

\* a value is one of the tokens of a set (a number by its value)
IsToken(v, tokens) == \E x \in tokens : PyEq(v, x)

\* a BoolField built without representations
DefaultBool(field) ==
    field.type = "bool" /\ field.representations = <<BoolV(FALSE), BoolV(TRUE)>>

(***************************************************************************)
(* C17.  BoolField with default settings maps each documented false token  *)
(* to False and each documented true token to True and raises ValueError   *)
(* for every other text, number or None; built with representations=(f, t) *)
(* it maps f to False and t to True on input and gives f for False and t   *)
(* for True on output.                                                     *)
(***************************************************************************)
C17_BoolTokens ==
    /\ (field_call = "from_representation" /\ DefaultBool(field_obj))
         => /\ IsToken(field_arg, DocumentedFalse)
                 => field_result = Ok(BoolV(FALSE))
            /\ IsToken(field_arg, DocumentedTrue)
                 => field_result = Ok(BoolV(TRUE))
            /\ ( /\ ~IsToken(field_arg, DocumentedFalse \cup DocumentedTrue)
                 /\ field_arg.t \notin {"list", "dict"} )
                 => field_result.exc = "ValueError"
    /\ (field_call = "from_representation" /\ field_obj.type = "bool"
            /\ ~DefaultBool(field_obj))
         => /\ field_arg = field_obj.representations[1]
                 => field_result = Ok(BoolV(FALSE))
            /\ field_arg = field_obj.representations[2]
                 => field_result = Ok(BoolV(TRUE))
    /\ (field_call = "to_representation" /\ field_obj.type = "bool"
            /\ field_arg.t = "bool")
         => field_result = Ok(field_obj.representations[field_arg.i + 1])

(***************************************************************************)
(* The number fields and their bounds.                                     *)
(***************************************************************************)
NumberField(f) == f.type \in {"int", "float"}

\* the validators of a field that are bound checks, and the others
BoundChecks(f) == SelectSeq(f.validators, LAMBDA v : v.kind \in {"max", "min"})
UserValidators(f) == SelectSeq(f.validators, LAMBDA v : v.kind \notin {"max", "min"})

\* the bound checks the arguments max_value and min_value call for
ExpectedBoundChecks(f) ==
    (IF f.max_value # <<>> THEN <<max_validator(f.max_value[1])>> ELSE <<>>)
        \o (IF f.min_value # <<>> THEN <<min_validator(f.min_value[1])>> ELSE <<>>)

\* v < a or v > b, for the bounds that were given
OutOfBounds(f, v) ==
    \/ f.min_value # <<>> /\ Num(v) < 2 * f.min_value[1]
    \/ f.max_value # <<>> /\ Num(v) > 2 * f.max_value[1]

RequiredAbsent ==
    {params[n].name : n \in {m \in DOMAIN params : params[m].required}}
        \ DOMAIN req_params

\* decoding an input that passes the default of parameter p explicitly
ExplicitDefault(p) ==
    IF p.many
    THEN DecodeMany([x \in {p.name} |-> <<p.default[1]>>], p.name, p)
    ELSE DecodeSingle(p, p.default[1])

\* the non-required parameters absent from the input
OptionalAbsent ==
    {n \in DOMAIN params :
        ~params[n].required /\ params[n].name \notin DOMAIN req_params}

(***************************************************************************)
(* C19.  Parameter decoding never returns while a required parameter is    *)
(* absent from the input, and a missing-parameters failure names exactly   *)
(* the set of all required parameters absent from the input, each once,    *)
(* in one failure.                                                         *)
(***************************************************************************)
C19_MissingNamesAll ==
    /\ param_outcome = "returned" => RequiredAbsent = {}
    /\ param_outcome = "HTTPMissingParam" =>
        /\ RequiredAbsent # {}
        /\ Range(param_error.names) = RequiredAbsent
        /\ Len(param_error.names) = Cardinality(RequiredAbsent)

\* two required parameters are absent and one failure names both, after the
\* loop has decoded a parameter
C19_Witness ==
    /\ param_outcome = "HTTPMissingParam"
    /\ Cardinality(RequiredAbsent) = 2
    /\ Len(param_error.names) = 2
    /\ decoded # <<>>

(***************************************************************************)
(* C20.  Absent-parameter rule: a non-required parameter with a default d  *)
(* that is absent from the input decodes as an input passing d explicitly  *)
(* does (the same value in the output, a many parameter as the list of     *)
(* that one value, and a rejected default rejected alike); a non-required  *)
(* parameter without default that is absent is no key of the output.       *)
(***************************************************************************)
C20_AbsentRule ==
    /\ param_outcome = "returned" =>
        \A n \in OptionalAbsent :
            LET p == params[n]
            IN  IF p.default # <<>>
                THEN /\ ExplicitDefault(p).exc = "none"
                     /\ DictHas(decoded, p.name)
                     /\ DictGet(decoded, p.name) = ExplicitDefault(p).val
                ELSE ~DictHas(decoded, p.name)
    /\ param_outcome = "HTTPInvalidParam" =>
        \A n \in OptionalAbsent :
            LET p == params[n]
            IN  (p.name = param_error.name /\ p.default # <<>>)
                    => ExplicitDefault(p).exc = "HTTPInvalidParam"


(***************************************************************************)
(* C21.  A many parameter that occurs in the input: every occurrence goes  *)
(* through value() and the validators, and when the call returns the       *)
(* decoded parameter is container(the decoded occurrences in input order), *)
(* container being list, the type set or a method; the default is not      *)
(* added.  A call that fails on such a parameter has an occurrence that    *)
(* value() or a validator rejects.                                         *)
(***************************************************************************)
\* the many parameters that occur in the input
ManyGiven ==
    {n \in DOMAIN params :
        params[n].many /\ params[n].name \in DOMAIN req_params}

\* the occurrences of parameter p, each decoded on its own
Occurrences(p) ==
    [n \in DOMAIN req_params[p.name] |->
        validated_value(p, req_params[p.name][n])]

C21_ManyContainer ==
    /\ param_outcome = "returned" =>
        \A n \in ManyGiven :
            /\ \A m \in DOMAIN Occurrences(params[n]) :
                    Occurrences(params[n])[m].exc = "none"
            /\ DictHas(decoded, params[n].name)
            /\ DictGet(decoded, params[n].name) =
                  Container(params[n].container,
                            ListV([m \in DOMAIN Occurrences(params[n]) |->
                                      Occurrences(params[n])[m].val]))
    /\ param_outcome = "HTTPInvalidParam" =>
        \A n \in ManyGiven :
            params[n].name = param_error.name =>
                \E m \in DOMAIN Occurrences(params[n]) :
                    Occurrences(params[n])[m].exc # "none"

\* a call returned a list of two decoded occurrences for a parameter that
\* has a default, and a set for a parameter given the same value twice
C21_Witness ==
    /\ param_outcome = "returned"
    /\ \E n \in ManyGiven :
        /\ params[n].default # <<>>
        /\ params[n].container = "list"
        /\ DictGet(decoded, params[n].name) = ListV(<<IntV(1), IntV(1)>>)
    /\ \E n \in ManyGiven :
        /\ params[n].container = "set"
        /\ Len(req_params[params[n].name]) = 2
        /\ DictGet(decoded, params[n].name) = SetV({StrV("1")})


(***************************************************************************)
(* C22.  Parameter decoding is fail-fast: the first parameter, in registry *)
(* order, whose raw value is rejected by value() or by a validator ends    *)
(* the call with one HTTPInvalidParam that names it; no later parameter is *)
(* decoded and no mapping is returned.  validated_value(raw) returns       *)
(* value(raw) if and only if every validator accepts it.                   *)
(***************************************************************************)
\* the raw values of parameter p in the input: what was given, else its
\* default
RawOf(p) ==
    IF p.name \in DOMAIN req_params THEN Range(req_params[p.name])
    ELSE IF p.default # <<>> THEN {p.default[1]}
    ELSE {}

Rejected(r) == r.exc \in {"ValueError", "ValidationError"}

\* the parameters with a raw value that value() or a validator rejects
Failing ==
    {n \in DOMAIN params :
        \E raw \in RawOf(params[n]) :
            Rejected(validated_value(params[n], raw))}

ParamCallEnded == param_pc = "done" /\ params # <<>>

C22_FailFast ==
    /\ (ParamCallEnded /\ Failing # {}) =>
        /\ param_outcome = "HTTPInvalidParam"
        /\ \A n \in Failing :
              /\ params[n].name = param_error.name => \A m \in Failing : n <= m
              /\ ~DictHas(decoded, params[n].name)
        /\ \E n \in Failing :
              /\ params[n].name = param_error.name
              /\ \A m \in DOMAIN params :
                    m > n => ~DictHas(decoded, params[m].name)
    /\ param_outcome = "HTTPInvalidParam" => Failing # {}
    /\ \A n \in DOMAIN params, raw \in RawTexts :
          ParamValue(params[n], raw).exc = "none" =>
              ((validated_value(params[n], raw) = ParamValue(params[n], raw))
                  <=> \A v \in DOMAIN params[n].validators :
                        CallValidator(params[n].validators[v],
                                      ParamValue(params[n], raw).val).exc = "none")


(***************************************************************************)
(* C23.  Constructing a parameter fails if and only if its default is      *)
(* neither None nor a str (TypeError) or its default is not None while     *)
(* required is true (ValueError); every other declaration constructs and   *)
(* stores the default unchanged.                                           *)
(***************************************************************************)
DefaultNoString ==
    param_decl.default # <<>> /\ param_decl.default[1].t # "str"

DefaultOnRequired == param_decl.default # <<>> /\ param_decl.required

C23_DeclarationErrors ==
    param_pc = "made" =>
        /\ param_outcome = "TypeError" <=> DefaultNoString
        /\ param_outcome = "ValueError" <=>
              (DefaultOnRequired /\ ~DefaultNoString)
        /\ param_outcome = "none" <=> (~DefaultNoString /\ ~DefaultOnRequired)
        /\ param_outcome \in {"none", "TypeError", "ValueError"}
        /\ param_outcome = "none" =>
              /\ Len(params) = 1
              /\ params[1].default = param_decl.default
              /\ params[1].required = param_decl.required

\* a required parameter declared with the default "1" was refused
C23_Witness ==
    /\ param_pc = "made"
    /\ param_outcome = "ValueError"
    /\ param_decl.required
    /\ param_decl.default = <<StrV("1")>>


(***************************************************************************)
(* C24.  Re-entrancy: calls of to_representation, from_representation,     *)
(* validate and require_params on one serializer and one resource,         *)
(* interleaved in any order, each end with the result the call has when it *)
(* runs alone, and no step of a call changes the registries, a declaration *)
(* object in them or the input object of a call.                           *)
(***************************************************************************)
\* the frame of call c as it was when the call started
AtStart(c) ==
    [op |-> frames[c].op, arg |-> frames[c].given, given |-> frames[c].given,
     pos |-> 1, acc |-> <<>>, failed |-> <<>>, result |-> Running]

SameResult(a, b) == a.exc = b.exc /\ a.val = b.val

ResultAsAlone ==
    \A c \in CallIds :
        (frames[c].op # "none" /\ frames[c].result.exc # "running") =>
            SameResult(frames[c].result,
                       Alone(AtStart(c), shared_fields, shared_params))

NothingSharedWritten ==
    shared_pc = "serving" =>
        /\ shared_fields' = shared_fields
        /\ shared_params' = shared_params
        /\ \A c \in CallIds :
              frames[c].op # "none" =>
                  /\ frames'[c].arg = frames[c].given
                  /\ frames'[c].given = frames[c].given

DescriptionKeys == {"label", "details", "type", "spec", "read_only"}

\* the entry of key k in the description of a documented field
Described(documented, k) ==
    CASE k = "label" -> documented.label
      [] k = "type" ->
            StrV(IF documented.field.many
                 THEN "list of " \o documented.field.type
                 ELSE documented.field.type)
      [] k = "spec" -> NoneV
      [] k = "read_only" -> BoolV(documented.field.read_only)

C25_Describe ==
    /\ (doc_pc = "done" /\ doc_call.method = "BaseSerializer.describe") =>
        /\ Len(doc_output) = Len(doc_fields)
        /\ \A n \in DOMAIN doc_fields :
              /\ doc_output[n].k = doc_fields[n].field.name
              /\ doc_output[n].v.t = "dict"
              /\ DictKeys(doc_output[n].v.d) = DescriptionKeys
              /\ \A k \in DescriptionKeys \ {"details"} :
                    DictGet(doc_output[n].v.d, k) = Described(doc_fields[n], k)
    /\ (doc_pc = "done" /\ doc_call.method = "BaseField.describe") =>
        /\ DictKeys(doc_output) = DescriptionKeys \cup DictKeys(doc_call.kwargs)
        /\ \A k \in DictKeys(doc_call.kwargs) :
              DictGet(doc_output, k) = DictGet(doc_call.kwargs, k)
        /\ \A k \in (DescriptionKeys \ {"details"}) \ DictKeys(doc_call.kwargs) :
              DictGet(doc_output, k) = Described(doc_fields[doc_call.index], k)

\* a serializer with a many field and another field has been described
C25_Witness ==
    /\ doc_pc = "done"
    /\ doc_call.method = "BaseSerializer.describe"
    /\ Len(doc_output) >= 2
    /\ \E n \in DOMAIN doc_output :
          DictGet(doc_output[n].v.d, "type") = StrV("list of string")
    /\ \E n \in DOMAIN doc_output :
          DictGet(doc_output[n].v.d, "type") = StrV("int")


(***************************************************************************)
(* C26.  In the serializer-backed resources the update / create /          *)
(* create_bulk handler is invoked only after every representation of the   *)
(* body was coerced and validated successfully: when the body of a bulk    *)
(* request is no list, or a representation fails (it omits a required      *)
(* field, holds a forbidden key, or holds a value that cannot be parsed or *)
(* that a validator rejects), the request ends in a bad request, no        *)
(* handler was invoked and the storage is unchanged.                       *)
(***************************************************************************)
\* the representation fails by the rules of the specification
Fails(flds, rep) ==
    \/ OmittedRequired(flds, rep) # {}
    \/ ForbiddenKeys(flds, rep) # {}
    \/ Unparseable(flds, rep) # {}
    \/ InvalidNames(flds, rep) # {}

BodyFails ==
    \/ http_request.method = "PATCH" /\ ~http_request.body.list
    \/ \E n \in DOMAIN http_request.body.items :
          Fails(ResourceFields, http_request.body.items[n])

C26_HandlerAfterValidation ==
    /\ handler_calls # <<>> => ~BodyFails
    /\ (http_pc = "done" /\ BodyFails) =>
          /\ http_status = "HTTPBadRequest"
          /\ handler_calls = <<>>
          /\ storage = <<>>



(***************************************************************************)
(* Authentication (graceful.authentication, graceful.authorization).  A    *)
(* user storage is known by its class and its arguments, a middleware by   *)
(* its class and attributes.  The Authorization header is kept as the      *)
(* words header.split(' ') yields and X-Forwarded-For as the addresses     *)
(* split(',') yields, both <<>> when the header is absent; X-Api-Key is    *)
(* "" when absent.  req.context is a dict.                                 *)
(***************************************************************************)
TupleV(items) == [t |-> "tuple", i |-> 0, s |-> "", l |-> items, d |-> NoItems]

\* the object `...`
EllipsisV == [t |-> "ellipsis", i |-> 0, s |-> "", l |-> <<>>, d |-> NoItems]

\* user_storage=None
NoStorage == [cls |-> "none", user |-> NoneV, ip_range |-> {}]

DummyUserStorage(user) ==
    [cls |-> "DummyUserStorage", user |-> user, ip_range |-> {}]

IPRangeWhitelistStorage(ip_range, user) ==
    [cls |-> "IPRangeWhitelistStorage", user |-> user, ip_range |-> ip_range]

\* user_storage.get_user(identified_with, identifier, ...)
get_user(user_storage, identifier) ==
    CASE user_storage.cls = "DummyUserStorage" -> user_storage.user
      [] user_storage.cls = "IPRangeWhitelistStorage" ->
            IF identifier \in user_storage.ip_range
            THEN user_storage.user
            ELSE NoneV

\* the class attributes challenge (<<>> for None) and only_with_storage
ClassChallenge(cls) ==
    CASE cls = "Basic" -> <<"Basic realm=api">>
      [] cls = "XAPIKey" -> <<"X-Api-Key">>
      [] cls = "Token" -> <<"Token">>
      [] cls \in {"XForwardedFor", "Anonymous"} -> <<>>

OnlyWithStorage(cls) == cls \in {"Basic", "XAPIKey", "Token", "Anonymous"}

\* cls(user_storage, name): name "" stands for name=None
MiddlewareInit(cls, user_storage, name, fallback) ==
    [exc |-> IF OnlyWithStorage(cls) /\ user_storage.cls = "none"
             THEN "ValueError"
             ELSE "none",
     obj |-> [cls |-> cls,
              user_storage |-> user_storage,
              name |-> IF name # "" THEN name ELSE cls,
              challenge |-> ClassChallenge(cls),
              only_with_storage |-> OnlyWithStorage(cls),
              remote_address_fallback |-> fallback]]

\* word.lower() of the first word of an Authorization header
Lower(word) ==
    CASE word \in {"Basic", "basic", "BASIC"} -> "basic"
      [] word \in {"Token", "token"} -> "token"
      [] OTHER -> word

\* base64.b64decode(word).decode().partition(":"): the credentials of the
\* model, <<>> when the word is no base64 text
Credentials(word) ==
    CASE word = "dTE6cHc=" -> <<TupleV(<<StrV("u1"), StrV("pw")>>)>>
      [] word = "dTI=" -> <<TupleV(<<StrV("u2"), StrV("")>>)>>
      [] OTHER -> <<>>

\* REMOTE_ADDR of the WSGI environment
RemoteAddr == "127.0.0.1"

\* self.identify(req, resp, resource, uri_kwargs)
identify(self, hdrs) ==
    CASE self.cls = "Basic" ->
            IF hdrs.Authorization = <<>>
               \/ Lower(hdrs.Authorization[1]) # "basic"
            THEN Ok(NoneV)
            ELSE IF Len(hdrs.Authorization) # 2
            THEN Raise("HTTPBadRequest", StrV("Invalid Authorization header"))
            ELSE IF Credentials(hdrs.Authorization[2]) = <<>>
            THEN Raise("HTTPBadRequest", StrV("Invalid Authorization header"))
            ELSE Ok(Credentials(hdrs.Authorization[2])[1])
      [] self.cls = "XAPIKey" ->
            IF hdrs.XApiKey = "" THEN Ok(NoneV) ELSE Ok(StrV(hdrs.XApiKey))
      [] self.cls = "Token" ->
            IF hdrs.Authorization = <<>>
               \/ Lower(hdrs.Authorization[1]) # "token"
            THEN Ok(NoneV)
            ELSE IF Len(hdrs.Authorization) # 2
            THEN Raise("HTTPBadRequest", StrV("Invalid Authorization header"))
            ELSE Ok(StrV(hdrs.Authorization[2]))
      [] self.cls = "XForwardedFor" ->
            IF hdrs.XForwardedFor # <<>>
            THEN Ok(StrV(hdrs.XForwardedFor[1]))
            ELSE IF self.remote_address_fallback
            THEN Ok(StrV(RemoteAddr))
            ELSE Ok(NoneV)
      [] self.cls = "Anonymous" -> Ok(EllipsisV)

\* self.try_storage(identifier, req, resp, resource, uri_kwargs); the
\* middleware object of the synthetic user is known by its name
try_storage(self, identifier) ==
    IF identifier = NoneV
    THEN NoneV
    ELSE IF self.user_storage.cls # "none"
    THEN get_user(self.user_storage, identifier)
    ELSE IF ~self.only_with_storage
    THEN DictV(<<[k |-> "identified_with", v |-> StrV(self.name)],
                 [k |-> "identifier", v |-> identifier]>>)
    ELSE NoneV

\* req.context.setdefault('challenges', list()).append(challenge)
AppendChallenge(ctx, challenge) ==
    IF DictHas(ctx, "challenges")
    THEN DictPut(ctx, "challenges",
                 ListV(Append(DictGet(ctx, "challenges").l, StrV(challenge))))
    ELSE DictPut(ctx, "challenges", ListV(<<StrV(challenge)>>))

\* the end of process_resource: the user found, or None, is at hand
Authenticate(self, ctx, user) ==
    IF user # NoneV
    THEN DictPut(ctx, "user", user)
    ELSE IF self.challenge # <<>>
    THEN AppendChallenge(ctx, self.challenge[1])
    ELSE ctx

\* a process_resource that looks for the user whatever the context holds
process_resource_always(self, ctx, hdrs) ==
    IF identify(self, hdrs).exc # "none"
    THEN [exc |-> identify(self, hdrs).exc, context |-> ctx]
    ELSE [exc |-> "none",
          context |->
              Authenticate(self, ctx,
                           try_storage(self, identify(self, hdrs).val))]

\* self.process_resource(req, resp, resource, uri_kwargs): the exception
\* raised and req.context afterwards
process_resource(self, ctx, hdrs) ==
    IF DictHas(ctx, "user")
    THEN [exc |-> "none", context |-> ctx]
    ELSE process_resource_always(self, ctx, hdrs)

\* a >= b of two version tuples
VersionAtLeast(a, b) ==
    \/ a[1] > b[1]
    \/ a[1] = b[1] /\ a[2] > b[2]
    \/ a[1] = b[1] /\ a[2] = b[2] /\ a[3] >= b[3]

\* the hook authentication_required: the exception raised and its arguments
authentication_required(ctx, version) ==
    IF ~DictHas(ctx, "user")
    THEN [exc |-> "HTTPUnauthorized",
          args |->
              <<StrV("Unauthorized"),
                StrV("This resource requires authentication")>>
              \o (IF VersionAtLeast(version, <<1, 0, 0>>)
                  THEN IF DictHas(ctx, "challenges")
                       THEN <<DictGet(ctx, "challenges")>>
                       ELSE <<ListV(<<>>)>>
                  ELSE <<>>)]
    ELSE [exc |-> "none", args |-> <<>>]

\* the users of the storages
Alice == DictV(<<[k |-> "username", v |-> StrV("alice")]>>)
Bob == DictV(<<[k |-> "username", v |-> StrV("bob")]>>)
Internal == DictV(<<[k |-> "username", v |-> StrV("internal")]>>)

\* the constructor calls of the model
MiddlewareCalls ==
    { MiddlewareInit("Token",
          IPRangeWhitelistStorage({StrV("t1")}, Alice), "", FALSE),
      MiddlewareInit("Token", NoStorage, "", FALSE),
      MiddlewareInit("XAPIKey",
          IPRangeWhitelistStorage({StrV("k1")}, Bob), "", FALSE),
      MiddlewareInit("Basic",
          IPRangeWhitelistStorage({TupleV(<<StrV("u1"), StrV("pw")>>)}, Alice),
          "", FALSE),
      MiddlewareInit("XForwardedFor", NoStorage, "", FALSE),
      MiddlewareInit("XForwardedFor",
          IPRangeWhitelistStorage({StrV("10.0.0.1")}, Internal), "proxy", TRUE),
      MiddlewareInit("Anonymous", DummyUserStorage(EllipsisV), "", FALSE),
      MiddlewareInit("Anonymous", DummyUserStorage(NoneV), "", FALSE) }

\* the middleware objects: the calls that raised made none
Middlewares == {m.obj : m \in {c \in MiddlewareCalls : c.exc = "none"}}

RECURSIVE Chains(_)
Chains(n) ==
    IF n = 0
    THEN {<<>>}
    ELSE Chains(n - 1)
         \cup {Append(q, m) : q \in {c \in Chains(n - 1) : Len(c) = n - 1},
                              m \in Middlewares}

\* falcon.version.__version__ as tuple(map(int, ...split('.')))
FalconVersions == {<<0, 3, 0>>, <<1, 0, 0>>, <<1, 4, 1>>}

RequestHeaders ==
    [Authorization :
        {<<>>, <<"Token", "t1">>, <<"token", "t0">>,
         <<"Token", "Basic", "Basic">>, <<"Basic", "dTE6cHc=">>,
         <<"basic", "!">>},
     XApiKey : {"", "k1", "k0"},
     XForwardedFor : {<<>>, <<"10.0.0.1", "10.0.0.9">>}]

\* api = falcon.API(middleware=[...]) under the installed falcon
ConfigureAuth ==
    /\ auth_pc = "configure"
    /\ middleware' \in Chains(MaxMiddleware) \ {<<>>}
    /\ FALCON_VERSION' \in FalconVersions
    /\ auth_pc' = "ready"
    /\ UNCHANGED <<headers, context, auth_pos, auth_result>>
    /\ UNCHANGED outsideAuth

\* a request arrives for a responder guarded by authentication_required
ReceiveAuthRequest ==
    /\ auth_pc = "ready"
    /\ headers' \in RequestHeaders
    /\ context' = <<>>
    /\ auth_pos' = 1
    /\ auth_pc' = "process"
    /\ UNCHANGED <<middleware, FALCON_VERSION, auth_result>>
    /\ UNCHANGED outsideAuth

\* falcon calls process_resource of the next middleware; an exception ends
\* the request
ProcessResource ==
    /\ auth_pc = "process"
    /\ auth_pos <= Len(middleware)
    /\ context' = process_resource(middleware[auth_pos], context, headers).context
    /\ IF process_resource(middleware[auth_pos], context, headers).exc # "none"
       THEN /\ auth_result' =
                  [exc |-> process_resource(middleware[auth_pos], context,
                                            headers).exc,
                   args |-> <<>>]
            /\ auth_pc' = "done"
            /\ auth_pos' = auth_pos
       ELSE /\ auth_result' = auth_result
            /\ auth_pos' = auth_pos + 1
            /\ auth_pc' = IF auth_pos = Len(middleware) THEN "hook" ELSE "process"
    /\ UNCHANGED <<middleware, FALCON_VERSION, headers>>
    /\ UNCHANGED outsideAuth

\* falcon calls the hook before the responder
AuthenticationRequired ==
    /\ auth_pc = "hook"
    /\ auth_result' = authentication_required(context, FALCON_VERSION)
    /\ auth_pc' = "done"
    /\ UNCHANGED <<middleware, FALCON_VERSION, headers, context, auth_pos>>
    /\ UNCHANGED outsideAuth

AuthNext ==
    \/ ConfigureAuth
    \/ ReceiveAuthRequest
    \/ ProcessResource
    \/ AuthenticationRequired

AuthSpec == Init /\ [][AuthNext]_vars



(***************************************************************************)
(* C27.  When several authentication middlewares process one request in    *)
(* order, req.context['user'] is set by the first middleware whose         *)
(* identification and storage lookup yields a user and no later middleware *)
(* overwrites or removes it; every earlier middleware that did not         *)
(* authenticate and has a challenge appends its challenge exactly once,    *)
(* and the middlewares after the successful one append none;               *)
(* authentication_required rejects the request as unauthorized if and only *)
(* if no middleware set a user.  The accumulated challenges are passed     *)
(* with the rejection when the installed falcon is 1.0.0 or later; under   *)
(* an older falcon the rejection carries no challenges.                    *)
(***************************************************************************)
\* the middlewares whose process_resource has returned
Processed == 1 .. (auth_pos - 1)

\* identification and storage lookup of the middleware yield a user
YieldsUser(n) ==
    /\ identify(middleware[n], headers).exc = "none"
    /\ try_storage(middleware[n], identify(middleware[n], headers).val) # NoneV

Successful == {n \in Processed : YieldsUser(n)}

\* the first successful middleware, or the next to run when there is none
FirstSuccessful ==
    IF Successful = {}
    THEN auth_pos
    ELSE CHOOSE n \in Successful : \A m \in Successful : n <= m

HasChallenge(m) == m.challenge # <<>>

\* the challenges of the middlewares before the first successful one
Accumulated ==
    LET before == SelectSeq(SubSeq(middleware, 1, FirstSuccessful - 1),
                            HasChallenge)
    IN  [n \in DOMAIN before |-> StrV(before[n].challenge[1])]

ContextAsProcessed ==
    auth_pc \in {"process", "hook", "done"} =>
        /\ DictHas(context, "user") <=> Successful # {}
        /\ Successful # {} =>
              DictGet(context, "user") =
                  try_storage(middleware[FirstSuccessful],
                              identify(middleware[FirstSuccessful], headers).val)
        /\ DictHas(context, "challenges") <=> Accumulated # <<>>
        /\ Accumulated # <<>> =>
              DictGet(context, "challenges") = ListV(Accumulated)

\* the hook has run
HookRan == auth_pc = "done" /\ auth_pos > Len(middleware)

RejectedIffNoUser ==
    HookRan => (auth_result.exc = "HTTPUnauthorized" <=> Successful = {})

RECURSIVE ColonJoin(_)
ColonJoin(parts) ==
    IF Len(parts) = 1
    THEN parts[1]
    ELSE parts[1] \o ":" \o ColonJoin(Tail(parts))

\* KeyValueUserStorage.hash_identifier(identified_with, identifier)
hash_identifier(identified_with, identifier) ==
    IF identifier.t = "str"
    THEN Ok(identifier)
    ELSE Raise("TypeError",
               StrV("User storage does not support this kind of identifier"))

\* self._get_storage_key(identified_with, identifier)
StorageKey(self, identified_with, identifier) ==
    [hash_identifier(identified_with, identifier)
        EXCEPT !.val = StrV(ColonJoin(<<self.key_prefix, identified_with.name,
                                        identifier.s>>))]

\* json.loads(json.dumps(v)): a tuple comes back as a list
RECURSIVE JsonValue(_)
JsonValue(v) ==
    [v EXCEPT !.t = IF v.t = "tuple" THEN "list" ELSE v.t,
              !.l = [n \in DOMAIN v.l |-> JsonValue(v.l[n])],
              !.d = [n \in DOMAIN v.d |->
                        [k |-> v.d[n].k, v |-> JsonValue(v.d[n].v)]]]

\* self.serialization.dumps(user).encode()
DumpsEncode(user) ==
    [t |-> "bytes", i |-> 0, s |-> "", l |-> <<JsonValue(user)>>, d |-> NoItems]

\* self.serialization.loads(stored_value.decode())
LoadsDecode(stored_value) == stored_value.l[1]

\* self.kv_store.get(key)
KvGet(store, key) == IF DictHas(store, key) THEN DictGet(store, key) ELSE NoneV

\* KeyValueUserStorage(kv_store): key_prefix is 'users'
UserStorage == [key_prefix |-> "users"]

\* the middleware objects, the identifiers and the users of the calls
NamedMiddlewares == {[name |-> "Token"], [name |-> "Token:x"]}
Identifiers ==
    {StrV("t1"), StrV("x:t1"), TupleV(<<StrV("u1"), StrV("pw")>>)}
Users == {Alice, Bob, TupleV(<<StrV("carol"), IntV(1)>>)}

\* self.register(identified_with, identifier, user)
Register ==
    /\ Len(registered) < MaxRegister
    /\ \E m \in NamedMiddlewares, i \in Identifiers, u \in Users :
        /\ kv_call' = [method |-> "register", name |-> m.name, identifier |-> i]
        /\ IF StorageKey(UserStorage, m, i).exc # "none"
           THEN /\ kv_result' = StorageKey(UserStorage, m, i)
                /\ UNCHANGED <<kv_store, registered>>
           ELSE /\ kv_store' = DictPut(kv_store,
                                       StorageKey(UserStorage, m, i).val.s,
                                       DumpsEncode(u))
                /\ registered' =
                      Append(registered,
                             [name |-> m.name, identifier |-> i, user |-> u])
                /\ kv_result' = Ok(NoneV)
    /\ UNCHANGED outsideKv

\* self.get_user(identified_with, identifier, req, resp, resource, uri_kwargs)
GetUser ==
    /\ \E m \in NamedMiddlewares, i \in Identifiers :
        /\ kv_call' = [method |-> "get_user", name |-> m.name, identifier |-> i]
        /\ kv_result' =
              IF StorageKey(UserStorage, m, i).exc # "none"
              THEN StorageKey(UserStorage, m, i)
              ELSE IF KvGet(kv_store, StorageKey(UserStorage, m, i).val.s) # NoneV
              THEN Ok(LoadsDecode(KvGet(kv_store,
                                        StorageKey(UserStorage, m, i).val.s)))
              ELSE Ok(NoneV)
    /\ UNCHANGED <<kv_store, registered>>
    /\ UNCHANGED outsideKv

KvNext == Register \/ GetUser

KvSpec == Init /\ [][KvNext]_vars

(***************************************************************************)
(* C28.  After any sequence of register calls on a KeyValueUserStorage,    *)
(* get_user(m, i) returns the user most recently registered for the same   *)
(* middleware name and the same identifier, and None when nothing was      *)
(* registered for that pair; a user registered under another (middleware   *)
(* name, identifier) pair is never returned, whatever characters the names *)
(* and the identifiers contain.  Identifiers are strings, and a user is    *)
(* returned as the JSON value it was stored as.                            *)
(***************************************************************************)
\* the register calls made for the pair of the last call
ForSamePair ==
    {n \in DOMAIN registered :
        /\ registered[n].name = kv_call.name
        /\ registered[n].identifier = kv_call.identifier}

MostRecent == CHOOSE n \in ForSamePair : \A m \in ForSamePair : m <= n

C28_GetUserOfPair ==
    (kv_call.method = "get_user" /\ kv_call.identifier.t = "str") =>
        /\ kv_result.exc = "none"
        /\ kv_result.val =
              IF ForSamePair = {}
              THEN NoneV
              ELSE JsonValue(registered[MostRecent].user)



(***************************************************************************)
(* serializer.validate(object_dict, partial) called by the user's code on  *)
(* an internal object of its own making.                                   *)
(***************************************************************************)
\* class S(BaseSerializer): ...; serializer = S()
DefineValidated ==
    /\ direct_pc = "define"
    /\ \E b \in {x \in ClassBodies :
                   \A n \in DOMAIN x : Construct(x[n]).exc = "none"} :
        direct_fields' = [n \in DOMAIN b |-> Construct(b[n]).field]
    /\ direct_pc' = "ready"
    /\ UNCHANGED <<direct_call, direct_result>>
    /\ UNCHANGED outsideDirect

\* serializer.validate(object_dict, partial)
ValidateDirect ==
    /\ direct_pc = "ready"
    /\ \E od \in Instances(direct_fields), part \in BOOLEAN :
        /\ direct_call' = [object_dict |-> od, partial |-> part]
        /\ direct_result' = Validate(direct_fields, od, part)
    /\ direct_pc' = "done"
    /\ UNCHANGED direct_fields
    /\ UNCHANGED outsideDirect

DirectNext == DefineValidated \/ ValidateDirect

DirectSpec == Init /\ [][DirectNext]_vars

(***************************************************************************)
(* C29.  BaseSerializer.validate called directly with an internal object   *)
(* that holds a key which is the source of no declared field always ends   *)
(* by raising DeserializationError that lists that key under forbidden; it *)
(* never ends with another exception type, and the missing and invalid     *)
(* collections are still computed for the remaining keys.                  *)
(***************************************************************************)
\* the keys of the object that are the source of no declared field
NoSourceKeys ==
    {k \in DictKeys(direct_call.object_dict) :
        ~DictHas(SourcesDict(direct_fields, Len(direct_fields)), k)}

IsSourceEntry(entry) ==
    DictHas(SourcesDict(direct_fields, Len(direct_fields)), entry.k)

\* the object without those keys
RemainingKeys == SelectSeq(direct_call.object_dict, IsSourceEntry)

\* the remaining keys need no exception but ValidationError
RemainingValidated ==
    Validate(direct_fields, RemainingKeys, direct_call.partial).exc
        \in {"none", "DeserializationError"}

C29_UnknownKeyForbidden ==
    (direct_pc = "done" /\ NoSourceKeys # {} /\ RemainingValidated) =>
        /\ direct_result.exc = "DeserializationError"
        /\ NoSourceKeys \subseteq Range(direct_result.forbidden)
        /\ direct_result.missing =
              Validate(direct_fields, RemainingKeys, direct_call.partial).missing
        /\ direct_result.invalid =
              Validate(direct_fields, RemainingKeys, direct_call.partial).invalid



(***************************************************************************)
(* Fields built from one validators list.  A Python list is an object: the *)
(* heap holds the items of every list, and a variable or an attribute that *)
(* refers to a list holds its position in the heap (0 stands for None).    *)
(***************************************************************************)
\* validators or []: a list that is not empty is kept, None and the empty
\* list give a new list
OrNewList(hp, validators) ==
    IF validators # 0 /\ hp[validators] # <<>>
    THEN [heap |-> hp, ref |-> validators]
    ELSE [heap |-> Append(hp, <<>>), ref |-> Len(hp) + 1]

\* list.append(item) on the list at ref
ListAppend(hp, ref, item) == [hp EXCEPT ![ref] = Append(@, item)]

\* the two appends of IntField.__init__ and FloatField.__init__
AppendBounds(hp, ref, max_value, min_value) ==
    IF max_value # <<>> /\ min_value # <<>>
    THEN ListAppend(ListAppend(hp, ref, max_validator(max_value[1])), ref,
                    min_validator(min_value[1]))
    ELSE IF max_value # <<>>
    THEN ListAppend(hp, ref, max_validator(max_value[1]))
    ELSE IF min_value # <<>>
    THEN ListAppend(hp, ref, min_validator(min_value[1]))
    ELSE hp

\* cls(details, max_value=..., min_value=..., validators=...) of IntField
\* and FloatField: the heap afterwards and the field object
BoundedFieldInit(hp, cls, validators, max_value, min_value) ==
    [heap |-> AppendBounds(OrNewList(hp, validators).heap,
                           OrNewList(hp, validators).ref, max_value, min_value),
     field |-> [type |-> FieldType(cls),
                validators |-> OrNewList(hp, validators).ref,
                passed |-> validators,
                max_value |-> max_value, min_value |-> min_value]]

\* the lists a caller writes
CallerLists ==
    {<<>>,
     <<min_validator(0)>>,
     <<choices_validator({IntV(0), IntV(1), IntV(2)}, "0, 1, 2")>>}

\* L = [...]
MakeList ==
    /\ caller_list = 0
    /\ \E items \in CallerLists :
        /\ heap' = Append(heap, items)
        /\ original' = items
    /\ caller_list' = Len(heap) + 1
    /\ UNCHANGED <<built_fields, validated_with>>
    /\ UNCHANGED outsideLists

\* field = IntField(..., validators=L) or FloatField(..., validators=L), or
\* the same without validators
BuildField ==
    /\ caller_list # 0
    /\ Len(built_fields) < MaxFields
    /\ \E cls \in {"IntField", "FloatField"}, validators \in {0, caller_list},
          max_value \in {<<>>, <<1>>}, min_value \in {<<>>, <<1>>} :
        /\ heap' = BoundedFieldInit(heap, cls, validators, max_value,
                                    min_value).heap
        /\ built_fields' =
              Append(built_fields,
                     BoundedFieldInit(heap, cls, validators, max_value,
                                      min_value).field)
    /\ UNCHANGED <<caller_list, original, validated_with>>
    /\ UNCHANGED outsideLists

\* field.validate(value) of a field built
ValidateBuilt ==
    /\ \E n \in DOMAIN built_fields, value \in {IntV(k) : k \in Ints} :
        validated_with' =
            [field |-> n, value |-> value,
             result |-> RunValidators(heap[built_fields[n].validators], 1, value)]
    /\ UNCHANGED <<heap, caller_list, original, built_fields>>
    /\ UNCHANGED outsideLists

ListNext == MakeList \/ BuildField \/ ValidateBuilt

ListSpec == Init /\ [][ListNext]_vars

(***************************************************************************)
(* C30.  Constructing a field never modifies the validators list passed in *)
(* by the caller: after IntField or FloatField is built with validators=L  *)
(* and a min_value and/or max_value, L holds the same elements as before,  *)
(* so two fields built from the same list L do not acquire each other's    *)
(* bound validators and each field validates only against its own bounds   *)
(* and the original entries of L.                                          *)
(***************************************************************************)
\* the validators of the field's own bounds, in the order of the appends
OwnBounds(field) ==
    (IF field.max_value # <<>> THEN <<max_validator(field.max_value[1])>> ELSE <<>>)
        \o (IF field.min_value # <<>>
            THEN <<min_validator(field.min_value[1])>>
            ELSE <<>>)

\* the validators the field is to validate against
OwnValidators(field) ==
    (IF field.passed # 0 THEN original ELSE <<>>) \o OwnBounds(field)

C30_CallerListUnmodified ==
    /\ caller_list # 0 => heap[caller_list] = original
    /\ \A n \in DOMAIN built_fields :
          Range(heap[built_fields[n].validators])
              = Range(OwnValidators(built_fields[n]))
    /\ validated_with.field # 0 =>
          validated_with.result =
              RunValidators(OwnValidators(built_fields[validated_with.field]),
                            1, validated_with.value)

=============================================================================
